---- MODULE Spec2Model ----
(***************************************************************************)
(* qperf (src/src/qperf.c): the control plane of the client and the       *)
(* server.  The module models                                              *)
(*   - the framed transfer send_recv_mesg over a non-blocking socket,      *)
(*   - synchronize / exchange_results run by the two sides of a test,      *)
(*   - the server's accept / fork / waitpid loop,                          *)
(*   - the timer: start_timing, stop_timing, set_finished, sig_alrm,       *)
(*   - the client run wrapper and the exit status of main.                 *)
(* Each part has its own specification (SpecIO, SpecSync, ...) over the    *)
(* same variables; a specification leaves the variables of the other       *)
(* parts at their initial values.                                          *)
(***************************************************************************)
EXTENDS Integers, Sequences, FiniteSets, TLC

VARIABLES
    now,        \* the wall clock read by get_seconds, in ticks
    Req,        \* [side -> the fields of the global Req the control plane reads]
    chan,       \* [side -> bytes queued in the socket for that side to read]
    eof,        \* [side -> the peer has closed the connection]
    io,         \* [side -> the frame of send_recv_mesg running on that side]
    sy,         \* [side -> the frame of synchronize running on that side]
    Successful, \* [side -> the global Successful of the process]
    itimer,     \* [side -> the ITIMER_REAL of the process]
    LStat,      \* [side -> the global LStat of the process]
    xr,         \* [side -> the frame of exchange_results running on that side]
    RStat,      \* the client's global RStat: the Stat received from the server
    Res,        \* the client's global Res
    ShowTable,  \* the client's ShowTable[0..ShowIndex-1]
    srv,        \* the server parent: its place in server() and its sockets
    child,      \* the forked child of the server
    nchild,     \* number of children of the server forked and not yet reaped
    conn,       \* the connection the server accepted last
    queued,     \* connections waiting in the listen queue, and their total
    tm,         \* Finished, the interval timer and the signal frames of a test
    cl,         \* the client invocation: its tests and ExitStatus
    par,        \* the client's ParInfo table and its argument processing
    codec,      \* the encode and decode buffers, EncodePtr and DecodePtr
    view,       \* the verbosity settings and the view_* call at hand
    cmd         \* do_args: the command line and what it has selected

\* The variables above the framed I/O: send_recv_mesg changes none of them.
srvv == <<srv, child, nchild, conn, queued>>
outer == <<srvv, tm, cl, par, codec, view, cmd>>
above == <<xr, RStat, Res, ShowTable, outer>>
app == <<sy, Successful, itimer, LStat, above>>

vars == <<now, Req, chan, eof, io, app>>

----------------------------------------------------------------------------
(* Bounds of the model. *)

\* Ticks of the model clock in one second (the clock of get_seconds has
\* microsecond resolution; the model clock is coarser).
TicksPerSec == 1
\* Largest value of Req.timeout (seconds) the framed-I/O specification draws.
MaxTimeout == 1
\* Largest len of a framed transfer in the framed-I/O specification.
MaxLen == 2
\* Byte values 0..MaxByte in the framed-I/O specification.
MaxByte == 1
\* Bytes a socket buffer holds.
ChanCap == 4
\* Latest tick at which the framed-I/O specification starts its call.
MaxStart == 1
\* Units of the stream a fixed-size record (REQ, STAT) takes.
RecLen == 2
\* Connections made to the server.
MaxConns == 2

----------------------------------------------------------------------------
(* Constants of the program. *)

\* #define VER_MAJ / VER_MIN / VER_INC
VER_MAJ == 0
VER_MIN == 2
VER_INC == 0
\* static int ServerTimeout = 5
ServerTimeout == 5
\* cardof(Tests) in a build without HAVE_LIBIBVERBS.
NTests == 10
\* The indexes of conf and quit in Tests.
CONF_INDEX == 0
QUIT_INDEX == 1
\* client(): the defaults of L_TIME / R_TIME and of L_TIMEOUT / R_TIMEOUT.
DefaultTime == 2
DefaultTimeout == 5
\* #define SYNCMESG "SyN": the bytes 'S', 'y', 'N' and the terminating NUL.
SYNCMESG == <<83, 121, 78, 0>>
\* #define SYNCSIZE sizeof(SYNCMESG)
SYNCSIZE == Len(SYNCMESG)

----------------------------------------------------------------------------
(* Helpers. *)

Sides == {"client", "server"}
Peer(p) == IF p = "client" THEN "server" ELSE "client"

Min(a, b) == IF a < b THEN a ELSE b

Byte == 0..MaxByte

\* pc values of a frame of send_recv_mesg that has returned.
IoFailed == {"timed_out", "select_failed", "io_failed", "not_responding"}
IoReturned == {"ok"} \cup IoFailed

NoIo == [pc |-> "none", sr |-> "r", buf |-> <<>>, len |-> 0, total |-> 0,
         etime |-> 0, rd |-> <<>>, wr |-> <<>>]

\* The content of memory that was never written (a local array before the
\* first read into it): any byte.
Uninit == -1
UninitBuf(n) == [i \in 1..n |-> Uninit]

\* The fields of REQ that the control plane reads; the globals start zeroed.
ReqZero == [ver_maj |-> 0, ver_min |-> 0, ver_inc |-> 0, req_index |-> 0,
            timeout |-> 0, time |-> 0]

\* USTAT: no_bytes, no_msgs, no_errs.
UstatZero == [no_bytes |-> 0, no_msgs |-> 0, no_errs |-> 0]

\* init_vars / init_lstat: LStat is a copy of IStat, which holds the tick
\* rate and zeroes.  time_s and time_e are the real ticks (slot T_REAL) of
\* the two snapshots; ns and ne count how often each snapshot was taken;
\* cpu_s and cpu_e are the sums of the slots other than T_REAL and T_IDLE.
StatZero == [no_ticks |-> TicksPerSec, time_s |-> 0, time_e |-> 0,
             ns |-> 0, ne |-> 0, cpu_s |-> 0, cpu_e |-> 0,
             s |-> UstatZero, r |-> UstatZero,
             rem_s |-> UstatZero, rem_r |-> UstatZero]

\* A number of the results as the fraction n / d.
Frac(n, d) == [n |-> n, d |-> d]
ResZero == [l_real |-> Frac(0, 1), r_real |-> Frac(0, 1),
            l_cpu |-> Frac(0, 1), r_cpu |-> Frac(0, 1),
            latency |-> Frac(0, 1), msg_rate |-> Frac(0, 1),
            send_bw |-> Frac(0, 1), recv_bw |-> Frac(0, 1),
            send_cost |-> Frac(0, 1), recv_cost |-> Frac(0, 1)]

\* The server before server() runs, with no connection made.
NoChild == [pc |-> "none", test |-> 0]
NoConn == [req |-> ReqZero, full |-> FALSE, sent |-> 0,
           split |-> FALSE, outcome |-> "none", prev |-> "none"]
\* No upgrade message was printed.
NoUpgrade == [low |-> "", from |-> <<>>, to |-> <<>>]
SrvInit ==
    /\ srv = [pc |-> "init", leaked |-> 0, upgrade |-> NoUpgrade]
    /\ child = NoChild
    /\ nchild = 0
    /\ conn = NoConn
    /\ queued = [n |-> 0, total |-> 0]

\* No test is timed, and no client invocation runs.
NoTimer == [pc |-> "none"]
\* No argument list is processed.
NoPar == [pc |-> "none"]
NoCodec == [pc |-> "none"]
NoView == [pc |-> "none"]
NoCmd == [pc |-> "none"]
NoClient == [pc |-> "none", tests |-> <<>>, test |-> 0, ExitStatus |-> 0,
             code |-> 0, sent |-> FALSE, synced |-> FALSE, results |-> <<>>,
             returned |-> FALSE, got |-> FALSE]

\* The state of the variables above the framed I/O when a process starts.
NoSync == [pc |-> "none", err |-> "", got |-> <<>>]
NoXchg == [pc |-> "none", entry |-> 0, ok1 |-> FALSE, ok2 |-> FALSE,
           got |-> <<>>, stat |-> StatZero]
AppBase ==
    /\ sy = [p \in Sides |-> NoSync]
    /\ Successful = [p \in Sides |-> 0]
    /\ itimer = [p \in Sides |-> "off"]
    /\ LStat = [p \in Sides |-> StatZero]
    /\ xr = [p \in Sides |-> NoXchg]
    /\ RStat = StatZero
    /\ Res = ResZero
    /\ ShowTable = <<>>
    /\ SrvInit
    /\ tm = NoTimer
    /\ cl = NoClient
AppInit == AppBase /\ par = NoPar /\ codec = NoCodec /\ view = NoView /\ cmd = NoCmd

----------------------------------------------------------------------------
(* send_recv_mesg, qperf.c 1384-1437. *)

\* etime = get_seconds() + Req.timeout
Deadline(t, timeout) == t + timeout * TicksPerSec

\* time = etime - get_seconds()
TimeLeft(etime, t) == etime - t

\* A loop that tests time < 0 in place of time <= 0.
TimedOutLate(etime, t) == TimeLeft(etime, t) < 0

\* if (time <= 0) return error("... timed out")
TimedOut(etime, t) == TimeLeft(etime, t) <= 0

\* n = func(fd, buf, len) for read: the n bytes go to buf[0..n-1].  The
\* call is always made with the pointer buf the caller passed (only len
\* changes in the loop), whatever was transferred before.
ReadInto(buf, data) ==
    [i \in 1..Len(buf) |-> IF i <= Len(data) THEN data[i] ELSE buf[i]]

\* n = func(fd, buf, len) for write: the bytes handed to the socket are
\* buf[0..n-1].
WriteFrom(buf, n) == SubSeq(buf, 1, n)

\* select reports fd readable: data is queued or the peer has closed.
Readable(p) == chan[p] # <<>> \/ eof[p]
\* select reports fd writable: the peer's queue has room, or the connection
\* is closed (the write then fails).
Writable(p) == Len(chan[Peer(p)]) < ChanCap \/ eof[p]
Ready(p) == IF io[p].sr = "r" THEN Readable(p) ELSE Writable(p)

\* The frame with which a call of send_recv_mesg(sr, item, fd, buf, len)
\* starts: lines 1395-1405.
IoFrame(p, sr, buf, len) ==
    [pc |-> "top", sr |-> sr, buf |-> buf, len |-> len, total |-> len,
     etime |-> Deadline(now, Req[p].timeout), rd |-> <<>>, wr |-> <<>>]

\* while (len) { time = etime - get_seconds(); if (time <= 0) return ...;
\* build timeval }  -- or return 1 when len is 0.
IoLoop(p) ==
    /\ io[p].pc = "top"
    /\ io' = [io EXCEPT ![p].pc =
                IF io[p].len = 0 THEN "ok"
                ELSE IF TimedOut(io[p].etime, now) THEN "timed_out"
                ELSE "select"]
    /\ UNCHANGED <<now, Req, chan, eof, app>>

\* select returned with fd set in fdset.
IoSelectReady(p) ==
    /\ io[p].pc = "select"
    /\ Ready(p)
    /\ io' = [io EXCEPT ![p].pc = "call"]
    /\ UNCHANGED <<now, Req, chan, eof, app>>

\* select returned 0 after its timeout (time, plus a microsecond that is
\* below the resolution of the model clock): !FD_ISSET, continue.
IoSelectTimeout(p) ==
    /\ io[p].pc = "select"
    /\ ~Ready(p)
    /\ TimeLeft(io[p].etime, now) <= 0
    /\ io' = [io EXCEPT ![p].pc = "top"]
    /\ UNCHANGED <<now, Req, chan, eof, app>>

\* select returned < 0 (EINTR when a signal is delivered, or another error).
IoSelectFail(p) ==
    /\ io[p].pc = "select"
    /\ io' = [io EXCEPT ![p].pc = "select_failed"]
    /\ UNCHANGED <<now, Req, chan, eof, app>>

\* n = read(fd, buf, len) with n > 0; len -= n.
IoRead(p) ==
    /\ io[p].pc = "call" /\ io[p].sr = "r"
    /\ chan[p] # <<>>
    /\ \E n \in 1..Min(io[p].len, Len(chan[p])) :
          /\ io' = [io EXCEPT ![p].buf = ReadInto(@, SubSeq(chan[p], 1, n)),
                              ![p].len = @ - n,
                              ![p].rd = @ \o SubSeq(chan[p], 1, n),
                              ![p].pc = "top"]
          /\ chan' = [chan EXCEPT ![p] = SubSeq(@, n + 1, Len(@))]
    /\ UNCHANGED <<now, Req, eof, app>>

\* n = read(...) with n == 0: the peer has closed and nothing is queued.
IoReadEof(p) ==
    /\ io[p].pc = "call" /\ io[p].sr = "r"
    /\ chan[p] = <<>> /\ eof[p]
    /\ io' = [io EXCEPT ![p].pc = "not_responding"]
    /\ UNCHANGED <<now, Req, chan, eof, app>>

\* n = write(fd, buf, len) with n > 0; len -= n.
IoWrite(p) ==
    /\ io[p].pc = "call" /\ io[p].sr = "s"
    /\ ~eof[p]
    /\ \E n \in 1..Min(io[p].len, ChanCap - Len(chan[Peer(p)])) :
          /\ io' = [io EXCEPT ![p].len = @ - n,
                              ![p].wr = @ \o WriteFrom(io[p].buf, n),
                              ![p].pc = "top"]
          /\ chan' = [chan EXCEPT ![Peer(p)] = @ \o WriteFrom(io[p].buf, n)]
    /\ UNCHANGED <<now, Req, eof, app>>

\* n = func(...) with n < 0: a write on a closed connection, or a
\* connection reset.
IoCallFail(p) ==
    /\ io[p].pc = "call"
    /\ eof[p]
    /\ io[p].sr = "r" => chan[p] # <<>>
    /\ io' = [io EXCEPT ![p].pc = "io_failed"]
    /\ UNCHANGED <<now, Req, chan, eof, app>>

\* The steps of send_recv_mesg on side p while the connection is open.
IoOpen(p) ==
    \/ IoLoop(p)
    \/ IoSelectReady(p)
    \/ IoSelectTimeout(p)
    \/ IoRead(p)
    \/ IoWrite(p)

\* The steps of send_recv_mesg on side p that the process takes by itself.
IoProgress(p) ==
    \/ IoOpen(p)
    \/ IoReadEof(p)
    \/ IoCallFail(p)

\* The steps of a receive on side p.
IoRecv(p) ==
    \/ IoLoop(p)
    \/ IoSelectReady(p)
    \/ IoSelectTimeout(p)
    \/ IoRead(p)
    \/ IoReadEof(p)
    \/ IoCallFail(p)

\* The steps of send_recv_mesg on side p in which no select runs out.
IoAwake(p) ==
    \/ IoLoop(p)
    \/ IoSelectReady(p)
    \/ IoSelectFail(p)
    \/ IoRead(p)
    \/ IoReadEof(p)
    \/ IoWrite(p)
    \/ IoCallFail(p)

\* The steps of send_recv_mesg on side p.
IoStep(p) == IoProgress(p) \/ IoSelectFail(p)

\* The clock advances.  A process blocked in select is woken when the
\* timeout of the select has run out, so the clock does not pass that point
\* while the process is still in select.  MaxNow caps the clock.
ClockMayTick ==
    \A p \in Sides : io[p].pc = "select" => TimeLeft(io[p].etime, now) > 0

\* Side p is blocked in select: nothing it waits for has happened.
Blocked(p) == io[p].pc = "select" /\ ~Ready(p)

----------------------------------------------------------------------------
(* start_timing, qperf.c 1636-1650. *)

\* get_times(LStat.time_s); setitimer(0); if (seconds) arm the timer with
\* it_value = seconds and it_interval = 1 microsecond.  The second
\* setitimer fails (EINVAL) for a negative tv_sec, and its result is not
\* looked at: the timer stays off.
StartTimingUnarmed(p, seconds) ==
    /\ LStat' = [LStat EXCEPT ![p].time_s = now, ![p].ns = @ + 1]
    /\ itimer' = [itimer EXCEPT ![p] = "off"]
StartTiming(p, seconds) ==
    /\ LStat' = [LStat EXCEPT ![p].time_s = now, ![p].ns = @ + 1]
    /\ itimer' = [itimer EXCEPT ![p] = IF seconds = 0 THEN "off"
                                        ELSE IF seconds < 0 THEN "off"
                                        ELSE "armed"]

----------------------------------------------------------------------------
(* synchronize, send_sync, recv_sync: qperf.c 1280-1297, 1335-1355. *)

\* is_client()
IsClient(p) == p = "client"

\* The client sends then receives; the server receives then sends.
SyncFirst(p) == IF IsClient(p) THEN "s" ELSE "r"
SyncSecond(p) == IF IsClient(p) THEN "r" ELSE "s"

\* send_sync: send_mesg(SYNCMESG, SYNCSIZE, "sync");
\* recv_sync: char data[SYNCSIZE]; recv_mesg(data, sizeof(data), "sync").
SyncFrame(p, sr) ==
    IoFrame(p, sr, IF sr = "s" THEN SYNCMESG ELSE UninitBuf(SYNCSIZE), SYNCSIZE)

\* memcmp(data, SYNCMESG, SYNCSIZE) on a buffer some bytes of which may
\* never have been written: the comparison can come out equal only if every
\* written byte matches, and can come out different if some byte is wrong
\* or was never written.
MayMatch(buf) == \A i \in 1..SYNCSIZE : buf[i] \in {SYNCMESG[i], Uninit}
MayDiffer(buf) == \E i \in 1..SYNCSIZE : buf[i] # SYNCMESG[i]

\* The error with which send_sync / recv_sync can return on the frame f of
\* send_recv_mesg that has returned ("" is success).
SyncStepErrors(f) ==
    IF f.pc # "ok" THEN {f.pc}
    ELSE IF f.sr = "s" THEN {""}
    ELSE (IF MayMatch(f.buf) THEN {""} ELSE {})
         \cup (IF MayDiffer(f.buf) THEN {"mismatch"} ELSE {})

\* synchronize() is called: its first step starts.
SyncEnter(p) ==
    /\ sy' = [sy EXCEPT ![p] = [pc |-> "first", err |-> "", got |-> <<>>]]
    /\ io' = [io EXCEPT ![p] = SyncFrame(p, SyncFirst(p))]

\* The first step has returned: return 0 on failure, else start the second.
SyncFirstDone(p) ==
    /\ sy[p].pc = "first"
    /\ io[p].pc \in IoReturned
    /\ \E e \in SyncStepErrors(io[p]) :
          IF e = ""
          THEN /\ sy' = [sy EXCEPT ![p].pc = "second", ![p].got = io[p].rd]
               /\ io' = [io EXCEPT ![p] = SyncFrame(p, SyncSecond(p))]
          ELSE /\ sy' = [sy EXCEPT ![p].pc = "failed", ![p].err = e,
                                   ![p].got = io[p].rd]
               /\ io' = [io EXCEPT ![p] = NoIo]
    /\ UNCHANGED <<now, Req, chan, eof, Successful, itimer, LStat, above>>

\* The second step has returned: return 0 on failure, else
\* start_timing(Req.time) and return 1.
SyncSecondDone(p) ==
    /\ sy[p].pc = "second"
    /\ io[p].pc \in IoReturned
    /\ \E e \in SyncStepErrors(io[p]) :
          IF e = ""
          THEN /\ sy' = [sy EXCEPT ![p].pc = "ok",
                                   ![p].got = IF IsClient(p) THEN io[p].rd ELSE @]
               /\ StartTiming(p, Req[p].time)
          ELSE /\ sy' = [sy EXCEPT ![p].pc = "failed", ![p].err = e,
                                   ![p].got = IF IsClient(p) THEN io[p].rd ELSE @]
               /\ UNCHANGED <<itimer, LStat>>
    /\ io' = [io EXCEPT ![p] = NoIo]
    /\ UNCHANGED <<now, Req, chan, eof, Successful, above>>

SyncStep(p) == SyncFirstDone(p) \/ SyncSecondDone(p)

----------------------------------------------------------------------------
(* exchange_results, calc_results and show_info.                           *)

\* sizeof(STAT) in units of the model's stream; the encoded Stat is the
\* sequence of its units 1..StatLen.
StatLen == RecLen
EncStat == [i \in 1..StatLen |-> i]

\* Statistics a test can have gathered when it reaches exchange_results:
\* nothing, a sender's counts, and a receiver's counts together with what it
\* counted for the remote side.
UstatOne == [no_bytes |-> 2, no_msgs |-> 1, no_errs |-> 0]
StatSamples(t) ==
    { StatZero,
      [StatZero EXCEPT !.time_e = t, !.s = UstatOne, !.ns = 1, !.ne = 1],
      [StatZero EXCEPT !.time_e = t, !.r = UstatOne, !.rem_s = UstatOne,
                       !.ns = 1, !.ne = 1] }

\* dec_stat on the buffer recv_mesg filled: the peer's Stat if the buffer
\* holds its encoding, else whatever the bytes of the buffer decode to.
DecStat(buf, sent) ==
    IF buf = EncStat THEN {sent} ELSE StatSamples(1)

\* Lines 1318-1328: the step returned with error e ("" is success);
\* Successful = 1 is reached only past every return.
XchgResultAlways(e) == 1
XchgResult(e) == IF e = "" THEN 1 ELSE 0

\* exchange_results is called.
XchgEnter(p) ==
    /\ xr[p].pc = "none"
    /\ IF Successful[p] = 0
       THEN /\ xr' = [xr EXCEPT ![p].pc = "done", ![p].entry = 0]
            /\ UNCHANGED <<io, Successful>>
       ELSE /\ Successful' = [Successful EXCEPT ![p] = 0]
            /\ IF IsClient(p)
               THEN /\ io' = [io EXCEPT ![p] =
                                IoFrame(p, "r", UninitBuf(StatLen), StatLen)]
                    /\ xr' = [xr EXCEPT ![p].pc = "first", ![p].entry = 1]
               ELSE /\ io' = [io EXCEPT ![p] =
                                IoFrame(p, "s", EncStat, StatLen)]
                    /\ xr' = [xr EXCEPT ![p].pc = "first", ![p].entry = 1,
                                        ![p].stat = LStat[p]]
    /\ UNCHANGED <<now, Req, chan, eof, sy, itimer, LStat, RStat, Res,
                   ShowTable, outer>>

\* recv_mesg / send_mesg of the Stat has returned.
XchgFirstDone(p) ==
    /\ xr[p].pc = "first"
    /\ io[p].pc \in IoReturned
    /\ IF io[p].pc # "ok"
       THEN /\ xr' = [xr EXCEPT ![p].pc = "done"]
            /\ io' = [io EXCEPT ![p] = NoIo]
            /\ UNCHANGED RStat
       ELSE /\ xr' = [xr EXCEPT ![p].pc = "second", ![p].ok1 = TRUE,
                                ![p].got = io[p].rd]
            /\ IF IsClient(p)
               THEN /\ RStat' \in DecStat(io[p].buf, xr[Peer(p)].stat)
                    /\ io' = [io EXCEPT ![p] = SyncFrame(p, "s")]
               ELSE /\ io' = [io EXCEPT ![p] = SyncFrame(p, "r")]
                    /\ UNCHANGED RStat
    /\ UNCHANGED <<now, Req, chan, eof, sy, Successful, itimer, LStat, Res,
                   ShowTable, outer>>

\* send_sync / recv_sync has returned.
XchgSecondDone(p) ==
    /\ xr[p].pc = "second"
    /\ io[p].pc \in IoReturned
    /\ \E e \in SyncStepErrors(io[p]) :
          /\ xr' = [xr EXCEPT ![p].pc = "done", ![p].ok2 = (e = "")]
          /\ Successful' = [Successful EXCEPT ![p] = XchgResult(e)]
    /\ io' = [io EXCEPT ![p] = NoIo]
    /\ UNCHANGED <<now, Req, chan, eof, sy, itimer, LStat, RStat, Res,
                   ShowTable, outer>>

XchgStep(p) == XchgEnter(p) \/ XchgFirstDone(p) \/ XchgSecondDone(p)

\* add_ustat
AddUstat(l, r) == [no_bytes |-> l.no_bytes + r.no_bytes,
                   no_msgs  |-> l.no_msgs + r.no_msgs,
                   no_errs  |-> l.no_errs + r.no_errs]

\* calc_node dividing without its two guards.
NodeRealUnguarded(stat) == Frac(stat.time_e - stat.time_s, stat.no_ticks)

\* calc_node: time_real of a node; 0 when no time passed or no_ticks is 0.
NodeReal(stat) ==
    LET s == stat.time_e - stat.time_s
    IN  IF s = 0 \/ stat.no_ticks = 0 THEN Frac(0, 1)
        ELSE Frac(s, stat.no_ticks)

\* calc_node: time_cpu of a node, behind the same two guards.
NodeCpu(stat) ==
    LET s == stat.time_e - stat.time_s
    IN  IF s = 0 \/ stat.no_ticks = 0 THEN Frac(0, 1)
        ELSE Frac(stat.cpu_e - stat.cpu_s, stat.no_ticks)

\* double gB = 1000 * 1000 * 1000
gB == 1000 * 1000 * 1000

\* Lines 1754-1761: time_cpu*gB / no_bytes of the one side that sent
\* (received) while it did not receive (send) and the other side did not
\* send (receive); otherwise the cost stays 0.
Cost(own, other, ownCpu, otherCpu, a, b) ==
    IF own[a].no_bytes # 0 /\ own[b].no_bytes = 0 /\ other[a].no_bytes = 0
    THEN Frac(ownCpu.n * gB, ownCpu.d * own[a].no_bytes)
    ELSE IF other[a].no_bytes # 0 /\ other[b].no_bytes = 0
            /\ own[a].no_bytes = 0
    THEN Frac(otherCpu.n * gB, otherCpu.d * other[a].no_bytes)
    ELSE Frac(0, 1)

\* k / f and the mean of two fractions.
DivBy(k, f) == Frac(k * f.d, f.n)
Mid(f, g) == Frac(f.n * g.d + g.n * f.d, 2 * f.d * g.d)

\* One of the three rates of calc_results: from the local count alone, the
\* remote count alone, or both over the mean time.
Rate(lc, rc, loc, rem, lone, rone) ==
    IF rc = 0 THEN DivBy(lc, lone)
    ELSE IF lc = 0 THEN DivBy(rc, rone)
    ELSE DivBy(lc + rc, Mid(loc, rem))

\* calc_results past its guard, on the local and remote Stat L and R after
\* the four add_ustat: the times and rates of Res.
CalcRes(L, R) ==
    LET loc == NodeReal(L)
        rem == NodeReal(R)
        no_msgs == L.r.no_msgs + R.r.no_msgs
        base == [ResZero EXCEPT
                   !.l_real = loc, !.r_real = rem,
                   !.l_cpu = NodeCpu(L), !.r_cpu = NodeCpu(R),
                   !.latency = IF no_msgs # 0
                               THEN Frac(loc.n, loc.d * no_msgs)
                               ELSE Frac(0, 1)]
    IN  IF loc.n = 0 \/ rem.n = 0 THEN base
        ELSE [base EXCEPT
                !.msg_rate = Rate(L.r.no_msgs, R.r.no_msgs, loc, rem, rem, loc),
                !.send_bw = Rate(L.s.no_bytes, R.s.no_bytes, loc, rem, loc, rem),
                !.recv_bw = Rate(L.r.no_bytes, R.r.no_bytes, loc, rem, loc, rem),
                !.send_cost = Cost(L, R, NodeCpu(L), NodeCpu(R), "s", "r"),
                !.recv_cost = Cost(R, L, NodeCpu(R), NodeCpu(L), "r", "s")]

\* The four add_ustat of calc_results on the local and the remote Stat.
CombineL(L, R) == [L EXCEPT !.s = AddUstat(L.s, R.rem_s),
                            !.r = AddUstat(L.r, R.rem_r)]
CombineRCrossed(L, R) == [R EXCEPT !.s = AddUstat(R.s, L.rem_r),
                                   !.r = AddUstat(R.r, L.rem_s)]
CombineR(L, R) == [R EXCEPT !.s = AddUstat(R.s, L.rem_s),
                            !.r = AddUstat(R.r, L.rem_r)]

\* The measures a test shows (enum MEASURE).
Measures == {"LATENCY", "MSG_RATE", "BANDWIDTH", "BANDWIDTH_SR"}

\* The rows show_info places past its guard with every verbosity level at
\* its default 0: only the rows of type 'a' pass verbose().
InfoRows(measure, res) ==
    CASE measure = "LATENCY" -> <<[name |-> "latency", value |-> res.latency]>>
      [] measure = "MSG_RATE" -> <<[name |-> "msg_rate", value |-> res.msg_rate]>>
      [] measure = "BANDWIDTH" -> <<[name |-> "bw", value |-> res.recv_bw]>>
      [] measure = "BANDWIDTH_SR" ->
            <<[name |-> "send_bw", value |-> res.send_bw],
              [name |-> "recv_bw", value |-> res.recv_bw]>>

\* show_results(measure) on the client: calc_results, then show_info.
ShowResults(measure) ==
    /\ xr["client"].pc = "done"
    /\ xr' = [xr EXCEPT !["client"].pc = "shown"]
    /\ IF Successful["client"] = 0
       THEN UNCHANGED <<LStat, RStat, Res, ShowTable>>
       ELSE LET L == CombineL(LStat["client"], RStat)
                R == CombineR(LStat["client"], RStat)
            IN  /\ LStat' = [LStat EXCEPT !["client"] = L]
                /\ RStat' = R
                /\ Res' = CalcRes(L, R)
                /\ ShowTable' = ShowTable \o InfoRows(measure, CalcRes(L, R))
    /\ UNCHANGED <<now, Req, chan, eof, io, sy, Successful, itimer, outer>>

----------------------------------------------------------------------------
(* The exchange alone: both sides reach exchange_results at the end of a   *)
(* test over one connection, and each closes its socket when it is done.   *)

\* What the two sides have gathered: the client sent and the server
\* received, the reverse, or nothing at all was counted.
StatPairs(t) ==
    LET snd == [StatZero EXCEPT !.time_e = t, !.s = UstatOne,
                                !.ns = 1, !.ne = 1]
        rcv == [StatZero EXCEPT !.time_e = t, !.r = UstatOne,
                                !.rem_s = UstatOne, !.ns = 1, !.ne = 1]
    IN  { [client |-> snd, server |-> rcv],
          [client |-> rcv, server |-> snd],
          [client |-> StatZero, server |-> StatZero] }

InitXchg ==
    /\ now = 1
    /\ Req = [p \in Sides |-> [ReqZero EXCEPT !.timeout = 1]]
    /\ chan = [p \in Sides |-> <<>>]
    /\ eof = [p \in Sides |-> FALSE]
    /\ io = [p \in Sides |-> NoIo]
    /\ sy = [p \in Sides |-> NoSync]
    /\ Successful \in [Sides -> {0, 1}]
    /\ itimer = [p \in Sides |-> "off"]
    /\ LStat \in StatPairs(1)
    /\ xr = [p \in Sides |-> NoXchg]
    /\ RStat = StatZero
    /\ Res = ResZero
    /\ ShowTable = <<>>
    /\ SrvInit
    /\ tm = NoTimer
    /\ cl = NoClient
    /\ par = NoPar /\ codec = NoCodec /\ view = NoView /\ cmd = NoCmd

\* The test function returns and the caller closes the socket.
XchgClose(p) ==
    /\ xr[p].pc = (IF IsClient(p) THEN "shown" ELSE "done")
    /\ xr' = [xr EXCEPT ![p].pc = "closed"]
    /\ eof' = [eof EXCEPT ![Peer(p)] = TRUE]
    /\ UNCHANGED <<now, Req, chan, io, sy, Successful, itimer, LStat, RStat,
                   Res, ShowTable, outer>>

\* Time passes while a side is blocked in select.
TickXchg ==
    /\ \E p \in Sides : Blocked(p)
    /\ ClockMayTick
    /\ now' = now + 1
    /\ UNCHANGED <<Req, chan, eof, io, app>>

NextXchg ==
    \/ \E p \in Sides : XchgStep(p)
    \/ \E p \in Sides : IoProgress(p)
    \/ \E m \in Measures : ShowResults(m)
    \/ \E p \in Sides : XchgClose(p)
    \/ TickXchg

SpecXchg == InitXchg /\ [][NextXchg]_vars

----------------------------------------------------------------------------
(* Claims on exchange_results. *)

XchgReturned(p) == xr[p].pc \in {"done", "shown", "closed"}

\* Successful after the exchange is 1 exactly when it was 1 at the call and
\* both steps succeeded.
C5_SuccessIffAllSteps ==
    \A p \in Sides :
       XchgReturned(p) =>
          (Successful[p] = 1 <=> xr[p].entry = 1 /\ xr[p].ok1 /\ xr[p].ok2)

\* The client receives sizeof(stat) then sends the token, the server the
\* reverse; the client's successful receive took sizeof(stat) units from the
\* stream, every one written by the server's send of its encoded Stat, and
\* the server gets a token only after that.
C5_StepOrder ==
    /\ \A p \in Sides :
          /\ xr[p].pc = "first" =>
                /\ io[p].sr = (IF IsClient(p) THEN "r" ELSE "s")
                /\ io[p].total = StatLen
          /\ xr[p].pc = "second" =>
                /\ io[p].sr = (IF IsClient(p) THEN "s" ELSE "r")
                /\ io[p].total = SYNCSIZE
                /\ xr[p].ok1
    /\ xr["client"].ok1 =>
          /\ Len(xr["client"].got) = StatLen
          /\ \A i \in 1..StatLen : xr["client"].got[i] \in 1..StatLen
          /\ xr["server"].entry = 1
    /\ xr["server"].ok2 => xr["client"].ok1

\* Called with Successful false, exchange_results returns at once.
C5_NothingWhenFalse ==
    \A p \in Sides :
       xr[p].pc = "none" /\ xr'[p].pc # "none" /\ Successful[p] = 0 =>
          /\ xr'[p].pc = "done"
          /\ UNCHANGED <<io, chan, eof, Successful, LStat, RStat, Res, ShowTable>>

\* show_results with Successful false changes no statistics and no row.
C5_Suppressed ==
    xr["client"].pc = "done" /\ xr'["client"].pc = "shown"
       /\ Successful["client"] = 0 =>
          UNCHANGED <<LStat, RStat, Res, ShowTable>>

\* C5: exchange_results does nothing when Successful is already false;
\* otherwise the client receives the full encoded Stat and then sends a
\* sync while the server sends its Stat and then receives a sync, and
\* Successful is true afterwards if and only if every step succeeded; with
\* Successful false after the exchange, calc_results changes no statistics
\* and show_info places no row.
C5_ExchangeResults ==
    /\ [](C5_SuccessIffAllSteps /\ C5_StepOrder)
    /\ [][C5_NothingWhenFalse /\ C5_Suppressed]_vars
    /\ [](XchgReturned("client") /\ Successful["client"] = 0
             => ShowTable = <<>> /\ Res = ResZero)

\* The client's receive of the Stat succeeded, its send of the token failed,
\* and show_results has run without placing a row.
C5_Witness ==
    /\ xr["client"].pc = "shown"
    /\ xr["client"].entry = 1
    /\ xr["client"].ok1
    /\ ~xr["client"].ok2
    /\ Successful["client"] = 0
    /\ ShowTable = <<>>

----------------------------------------------------------------------------
(* The barrier alone: both sides call synchronize over one connection that *)
(* stays open; no signal is delivered.                                     *)

\* Values of Req.time (seconds) a test runs with.
ReqTimes == {0, 2}

InitSync ==
    /\ now = 0
    /\ \E t \in 0..MaxTimeout, d \in ReqTimes :
          Req = [p \in Sides |-> [ReqZero EXCEPT !.timeout = t, !.time = d]]
    /\ chan = [p \in Sides |-> <<>>]
    /\ eof = [p \in Sides |-> FALSE]
    /\ io = [p \in Sides |-> NoIo]
    /\ AppInit

\* A side reaches its call of synchronize.
SyncCall(p) ==
    /\ sy[p].pc = "none"
    /\ SyncEnter(p)
    /\ UNCHANGED <<now, Req, chan, eof, Successful, itimer, LStat, above>>

\* Time passes while a side is blocked in select or has not reached its
\* call of synchronize yet; the steps of a running process take no time.
TickSync ==
    /\ now < MaxStart + 2 * Deadline(0, MaxTimeout) + 1
    /\ \E p \in Sides : sy[p].pc = "none" \/ Blocked(p)
    /\ ClockMayTick
    /\ now' = now + 1
    /\ UNCHANGED <<Req, chan, eof, io, app>>

NextSync ==
    \/ \E p \in Sides : SyncCall(p)
    \/ \E p \in Sides : IoOpen(p)
    \/ \E p \in Sides : SyncStep(p)
    \/ TickSync

SpecSync == InitSync /\ [][NextSync]_vars

----------------------------------------------------------------------------
(* Claims on synchronize. *)

\* The server has sent its token: its send_sync has written SYNCSIZE bytes.
ServerHasSent ==
    \/ sy["server"].pc = "ok"
    \/ sy["server"].pc = "second" /\ io["server"].len = 0

\* C4: a side reports success only after it has received exactly the token
\* 'SyN\0'; over a connection on which every transfer completes a side never
\* fails (both return success; the only failures are failed transfers); and
\* the client's success happens after the server has sent its token.
C4_BarrierSucceeds ==
    /\ \A p \in Sides : sy[p].pc = "ok" => sy[p].got = SYNCMESG
    /\ \A p \in Sides : sy[p].pc = "failed" => sy[p].err \in IoFailed
    /\ sy["client"].pc = "ok" => ServerHasSent

----------------------------------------------------------------------------
(* Framed I/O alone: one call of send_recv_mesg on the client side, the    *)
(* peer being any sender, reader or closer of the connection.              *)

BufsOfLen(n) == [1..n -> Byte]

InitIO ==
    /\ now = 0
    /\ \E t \in 0..MaxTimeout :
          Req = [p \in Sides |-> [ReqZero EXCEPT !.timeout = t]]
    /\ AppInit
    /\ chan = [p \in Sides |-> <<>>]
    /\ eof = [p \in Sides |-> FALSE]
    /\ \E sr \in {"r", "s"}, n \in 1..MaxLen :
          \E b \in BufsOfLen(n) :
             io = [p \in Sides |->
                     IF p = "client"
                     THEN [NoIo EXCEPT !.pc = "entry", !.sr = sr, !.buf = b,
                                       !.len = n, !.total = n]
                     ELSE NoIo]

\* The call: lines 1395-1405.
IoEnter ==
    /\ io["client"].pc = "entry"
    /\ io' = [io EXCEPT !["client"] =
                 IoFrame("client", @.sr, @.buf, @.len)]
    /\ UNCHANGED <<now, Req, chan, eof, app>>

IoRun == IoStep("client")

\* The peer writes a byte of its stream.
PeerSend ==
    /\ io["client"].sr = "r"
    /\ ~eof["client"]
    /\ Len(chan["client"]) < ChanCap
    /\ Len(io["client"].rd) + Len(chan["client"]) < MaxLen
    /\ \E b \in Byte : chan' = [chan EXCEPT !["client"] = Append(@, b)]
    /\ UNCHANGED <<now, Req, eof, io, app>>

\* The peer reads what the client wrote.
PeerDrain ==
    /\ chan["server"] # <<>>
    /\ chan' = [chan EXCEPT !["server"] = Tail(@)]
    /\ UNCHANGED <<now, Req, eof, io, app>>

\* The peer closes the connection.
PeerClose ==
    /\ ~eof["client"]
    /\ io["client"].pc \notin IoReturned
    /\ eof' = [eof EXCEPT !["client"] = TRUE]
    /\ UNCHANGED <<now, Req, chan, io, app>>

TickIO ==
    /\ now < (IF io["client"].pc = "entry" THEN MaxStart
              ELSE io["client"].etime + 1)
    /\ ClockMayTick
    /\ now' = now + 1
    /\ UNCHANGED <<Req, chan, eof, io, app>>

NextIO ==
    \/ IoEnter
    \/ IoRun
    \/ PeerSend
    \/ PeerDrain
    \/ PeerClose
    \/ TickIO

SpecIO == InitIO /\ [][NextIO]_vars

\* The process runs when it can and the wall clock advances.
SpecIOFair ==
    SpecIO /\ WF_vars(IoEnter) /\ WF_vars(IoProgress("client")) /\ WF_vars(TickIO)

----------------------------------------------------------------------------
(* Claims on framed I/O. *)

\* C1: whenever a framed receive returns success, buf[0..len-1] holds the
\* len bytes read from the peer's stream, in stream order, however the
\* stream was split over the read() returns; and a successful framed send
\* has written exactly buf[0..len-1], once and in order, however it was
\* split over the write() returns.
C1_BufferHoldsStream ==
    io["client"].pc = "ok" =>
        /\ io["client"].sr = "r" => io["client"].buf = io["client"].rd
        /\ io["client"].sr = "s" => io["client"].wr = io["client"].buf

C2_AllTransferred ==
    /\ io["client"].len = 0
    /\ Len(io["client"].rd) + Len(io["client"].wr) = io["client"].total

C2_DeadlineFixed ==
    IF io["client"].pc = "entry" /\ io'["client"].pc # "entry"
    THEN io'["client"].etime = now + Req["client"].timeout * TicksPerSec
    ELSE io'["client"].etime = io["client"].etime

C2_FailsAtDeadline ==
    (/\ io["client"].pc = "top"
     /\ io["client"].len > 0
     /\ now >= io["client"].etime
     /\ io'["client"] # io["client"])
    => io'["client"].pc = "timed_out"

----------------------------------------------------------------------------
(* The server: server(), server_listen, server_recv_request and the child. *)

\* What a step of the server parent or of a peer leaves alone: the state of
\* the process layers, and the variables of the other parts.
proc == <<sy, Successful, itimer, LStat, xr, RStat, Res, ShowTable>>
beyondSrv == <<tm, cl, par, codec, view, cmd>>

ReqLen == RecLen
EncReq == [i \in 1..ReqLen |-> i]

\* Requests a client can send: a good one, one of another version and one
\* with a test index out of range, each with a timeout field of 0 or of
\* the default.
ReqOf(v, i, t) == [ReqZero EXCEPT !.ver_maj = v[1], !.ver_min = v[2],
                                  !.req_index = i, !.timeout = t]
ReqKinds == {<<<<VER_MAJ, VER_MIN>>, 1>>, <<<<VER_MAJ, VER_MIN + 1>>, 1>>,
             <<<<VER_MAJ, VER_MIN>>, NTests>>}
ReqTimeouts == {0, ServerTimeout}
Requests == {ReqOf(x[1][1], x[1][2], x[2]) : x \in ReqKinds \X ReqTimeouts}

\* dec_req on the buffer recv_mesg filled: the request sent if the buffer
\* holds its encoding, else whatever the bytes of the buffer decode to.
DecReq(buf, sent) == IF buf = EncReq THEN {sent} ELSE Requests

\* Line 1050 and line 1072.
VersionDiffers(r) == r.ver_maj # VER_MAJ \/ r.ver_min # VER_MIN
BadIndexAbove(r) == r.req_index > NTests
BadIndex(r) == r.req_index >= NTests
GoodReq(r) == ~VersionDiffers(r) /\ ~BadIndex(r)

\* waitpid(pid, 0, 0) returns when the child has exited.
WaitReturnsAtOnce(c) == TRUE
WaitReturns(c) == c.pc = "zombie"

\* server_listen: the socket is bound and listening; Req.timeout is set.
SrvListen ==
    /\ srv.pc = "init"
    /\ srv' = [srv EXCEPT !.pc = "accept"]
    /\ Req' = [Req EXCEPT !["server"].timeout = ServerTimeout]
    /\ UNCHANGED <<now, chan, eof, io, child, nchild, conn, queued, proc,
                   beyondSrv>>

\* server_recv_request: accept returns a connection, set_nonblock succeeds
\* and recv_mesg(&req, sizeof(req)) is entered.  The client of the
\* connection sends request r; full tells whether all of it is in the
\* socket already.
SrvAcceptConn(r, full, sent) ==
    /\ srv.pc = "accept"
    /\ queued.n > 0
    /\ conn' = [req |-> r, full |-> full, sent |-> sent, split |-> FALSE,
                outcome |-> "pending", prev |-> conn.outcome]
    /\ io' = [io EXCEPT !["server"] =
                 IoFrame("server", "r", UninitBuf(ReqLen), ReqLen)]
    /\ srv' = [srv EXCEPT !.pc = "recv"]
    /\ queued' = [queued EXCEPT !.n = @ - 1]

\* The server accepts the connection of a client that sends request r, of
\* which pre units are in the socket already.
SrvAccept ==
    /\ cl.pc \in {"none", "exited"}
    /\ \E r \in Requests, pre \in 0..ReqLen :
          /\ SrvAcceptConn(r, pre = ReqLen, pre)
          /\ chan' = [client |-> <<>>, server |-> SubSeq(EncReq, 1, pre)]
    /\ eof' = [p \in Sides |-> FALSE]
    /\ UNCHANGED <<now, Req, child, nchild, proc, beyondSrv>>

\* accept fails: return syserror("accept failed"); the loop continues.
SrvAcceptFail ==
    /\ srv.pc = "accept"
    /\ queued.n > 0
    /\ queued' = [queued EXCEPT !.n = @ - 1]
    /\ UNCHANGED <<now, Req, chan, eof, io, srv, child, nchild, conn, proc,
                   beyondSrv>>

\* set_nonblock fails: goto err, close(RemoteFD), return 0.
SrvNonblockFail ==
    /\ srv.pc = "accept"
    /\ queued.n > 0
    /\ conn' = [NoConn EXCEPT !.outcome = "nonblock_failed",
                              !.prev = conn.outcome]
    /\ chan' = [p \in Sides |-> <<>>]
    /\ eof' = [client |-> TRUE, server |-> FALSE]
    /\ queued' = [queued EXCEPT !.n = @ - 1]
    /\ UNCHANGED <<now, Req, io, srv, child, nchild, proc, beyondSrv>>

\* recv_mesg failed: goto err, close(RemoteFD), return 0; continue.
SrvRecvFailed ==
    /\ srv.pc = "recv"
    /\ io["server"].pc \in IoFailed
    /\ conn' = [conn EXCEPT !.outcome = io["server"].pc]
    /\ eof' = [eof EXCEPT !["client"] = TRUE]
    /\ io' = [io EXCEPT !["server"] = NoIo]
    /\ srv' = [srv EXCEPT !.pc = "accept"]
    /\ UNCHANGED <<now, Req, chan, child, nchild, queued, proc, beyondSrv>>

\* recv_mesg succeeded: dec_init(&req); dec_req(&Req); return 1.
SrvDecode ==
    /\ srv.pc = "recv"
    /\ io["server"].pc = "ok"
    /\ \E r \in DecReq(io["server"].buf, conn.req) :
          Req' = [Req EXCEPT !["server"] = r]
    /\ conn' = [conn EXCEPT !.split = (io["server"].buf # EncReq)]
    /\ io' = [io EXCEPT !["server"] = NoIo]
    /\ srv' = [srv EXCEPT !.pc = "check"]
    /\ UNCHANGED <<now, chan, eof, child, nchild, queued, proc, beyondSrv>>

\* Lines 1051-1069: h_* start as the version of the request, l_* as the
\* version of this program and low as "client"; the three are exchanged
\* when (l_maj, l_min) is above (h_maj, h_min).  The message is
\* "upgrade <low> from <l> to <h>".
UpgradeMessage(r) ==
    LET h == <<r.ver_maj, r.ver_min, r.ver_inc>>
        l == <<VER_MAJ, VER_MIN, VER_INC>>
    IN  IF l[1] > h[1] \/ (l[1] = h[1] /\ l[2] > h[2])
        THEN [low |-> "server", from |-> h, to |-> l]
        ELSE [low |-> "client", from |-> l, to |-> h]

\* Lines 1050-1071: the version differs; error(...); continue.  RemoteFD
\* is not closed.
SrvRejectVersion ==
    /\ srv.pc = "check"
    /\ VersionDiffers(Req["server"])
    /\ srv' = [srv EXCEPT !.pc = "accept", !.leaked = @ + 1,
                          !.upgrade = UpgradeMessage(Req["server"])]
    /\ conn' = [conn EXCEPT !.outcome = "version"]
    /\ UNCHANGED <<now, Req, chan, eof, io, child, nchild, queued, proc,
                   beyondSrv>>

\* Lines 1072-1075: bad request index; error(...); continue.  RemoteFD is
\* not closed.
SrvRejectIndex ==
    /\ srv.pc = "check"
    /\ ~VersionDiffers(Req["server"])
    /\ BadIndex(Req["server"])
    /\ srv' = [srv EXCEPT !.pc = "accept", !.leaked = @ + 1]
    /\ conn' = [conn EXCEPT !.outcome = "index"]
    /\ UNCHANGED <<now, Req, chan, eof, io, child, nchild, queued, proc,
                   beyondSrv>>

\* Lines 1076-1089: fork succeeds; the parent goes to waitpid.
SrvFork ==
    /\ srv.pc = "check"
    /\ GoodReq(Req["server"])
    /\ child' = [pc |-> "start", test |-> Req["server"].req_index]
    /\ nchild' = nchild + 1
    /\ srv' = [srv EXCEPT !.pc = "wait"]
    /\ conn' = [conn EXCEPT !.outcome = "dispatched"]
    /\ UNCHANGED <<now, Req, chan, eof, io, queued, proc, beyondSrv>>

\* fork fails: pid is -1, waitpid(-1, 0, 0) finds no child and returns;
\* close(RemoteFD).
SrvForkFail ==
    /\ srv.pc = "check"
    /\ GoodReq(Req["server"])
    /\ nchild = 0
    /\ srv' = [srv EXCEPT !.pc = "accept"]
    /\ conn' = [conn EXCEPT !.outcome = "fork_failed"]
    /\ eof' = [eof EXCEPT !["client"] = TRUE]
    /\ UNCHANGED <<now, Req, chan, io, child, nchild, queued, proc,
                   beyondSrv>>

\* waitpid returns: the child is reaped; close(RemoteFD); next pass.  The
\* process on the server side is the parent again, which has run no test
\* and no timer.
SrvReap ==
    /\ srv.pc = "wait"
    /\ WaitReturns(child)
    /\ nchild' = IF child.pc = "zombie" THEN nchild - 1 ELSE nchild
    /\ child' = IF child.pc = "zombie" THEN NoChild ELSE child
    /\ srv' = [srv EXCEPT !.pc = "accept"]
    /\ eof' = [eof EXCEPT !["client"] = TRUE]
    /\ io' = [io EXCEPT !["server"] = NoIo]
    /\ LStat' = [LStat EXCEPT !["server"] = StatZero]
    /\ Successful' = [Successful EXCEPT !["server"] = 0]
    /\ sy' = [sy EXCEPT !["server"] = NoSync]
    /\ itimer' = [itimer EXCEPT !["server"] = "off"]
    /\ chan' = [chan EXCEPT !["server"] = <<>>]
    /\ UNCHANGED <<now, Req, conn, queued, xr, RStat, Res, ShowTable,
                   beyondSrv>>

\* The child, lines 1081-1085: init_lstat; Finished = 0; Successful = 0;
\* set_affinity; the server function of the requested test is called.  The
\* child is a copy of the parent, which has run no test and no timer.
ChildStart ==
    /\ child.pc = "start"
    /\ child' = [child EXCEPT !.pc = "test"]
    /\ LStat' = [LStat EXCEPT !["server"] = StatZero]
    /\ Successful' = [Successful EXCEPT !["server"] = 0]
    /\ sy' = [sy EXCEPT !["server"] = NoSync]
    /\ itimer' = [itimer EXCEPT !["server"] = "off"]
    /\ UNCHANGED <<now, Req, chan, eof, io, srv, nchild, conn, queued,
                   xr, RStat, Res, ShowTable, beyondSrv>>

\* The child, lines 1086-1087: the test function has returned;
\* stop_timing; exit(0).
ChildExit ==
    /\ child.pc = "returned"
    /\ child' = [child EXCEPT !.pc = "zombie"]
    /\ UNCHANGED <<now, Req, chan, eof, io, srv, nchild, conn, queued, proc,
                   beyondSrv>>

\* The parent's steps.
SrvStep ==
    \/ SrvListen
    \/ SrvAccept
    \/ SrvAcceptFail
    \/ SrvNonblockFail
    \/ SrvRecvFailed
    \/ SrvDecode
    \/ SrvRejectVersion
    \/ SrvRejectIndex
    \/ SrvFork
    \/ SrvForkFail
    \/ SrvReap

----------------------------------------------------------------------------
(* The server with clients that connect, deliver all, part or nothing of   *)
(* a request and may close; the test a child runs is a single step here.   *)

InitServer ==
    /\ now = 0
    /\ Req = [p \in Sides |-> ReqZero]
    /\ chan = [p \in Sides |-> <<>>]
    /\ eof = [p \in Sides |-> FALSE]
    /\ io = [p \in Sides |-> NoIo]
    /\ AppInit

\* A client connects: the connection waits in the listen queue.
EnvConnect ==
    /\ srv.pc # "init"
    /\ queued.total < MaxConns
    /\ queued' = [n |-> queued.n + 1, total |-> queued.total + 1]
    /\ UNCHANGED <<now, Req, chan, eof, io, srv, child, nchild, conn, proc,
                   beyondSrv>>

\* The client's next units of the request arrive.
EnvSend ==
    /\ cl.pc \in {"none", "exited"}
    /\ srv.pc = "recv"
    /\ ~eof["server"]
    /\ \E n \in 1..Min(ReqLen - conn.sent, ChanCap - Len(chan["server"])) :
          /\ chan' = [chan EXCEPT !["server"] =
                         @ \o SubSeq(EncReq, conn.sent + 1, conn.sent + n)]
          /\ conn' = [conn EXCEPT !.sent = @ + n]
    /\ UNCHANGED <<now, Req, eof, io, srv, child, nchild, queued, proc,
                   beyondSrv>>

\* The client closes its end.
EnvClose ==
    /\ cl.pc \in {"none", "exited"}
    /\ srv.pc = "recv"
    /\ ~eof["server"]
    /\ eof' = [eof EXCEPT !["server"] = TRUE]
    /\ UNCHANGED <<now, Req, chan, io, srv, child, nchild, conn, queued, proc,
                   beyondSrv>>

\* The server function of the test runs in the child and returns.
ChildTest ==
    /\ child.pc = "test"
    /\ child' = [child EXCEPT !.pc = "returned"]
    /\ UNCHANGED <<now, Req, chan, eof, io, srv, nchild, conn, queued, proc,
                   beyondSrv>>

\* Time passes while the parent is blocked in select, until the timeout of
\* the select has run out.
TickServer ==
    /\ Blocked("server")
    /\ ClockMayTick
    /\ now' = io["server"].etime
    /\ UNCHANGED <<Req, chan, eof, io, app>>

NextServer ==
    \/ SrvStep
    \/ IoRecv("server")
    \/ ChildStart
    \/ ChildTest
    \/ ChildExit
    \/ EnvConnect
    \/ EnvSend
    \/ EnvClose
    \/ TickServer

SpecServer == InitServer /\ [][NextServer]_vars

----------------------------------------------------------------------------
(* Claims on the server loop. *)

\* A request the server rejected for its version led to no fork.
RejectedNoFork ==
    conn.outcome = "version" => nchild = 0 /\ child = NoChild

\* C3: a request with a differing (ver_maj, ver_min) is rejected without a
\* fork, and the next connection that delivers a complete, version-matching,
\* in-range request within the server timeout is dispatched to its test,
\* whatever the other fields of the rejected request held.  The request of
\* the next connection is complete in the socket when the server accepts
\* it, its client keeps the connection open, the server reads it in one
\* piece and fork does not fail.
C3_ServerStaysAvailable ==
    /\ RejectedNoFork
    /\ conn.prev = "version" /\ conn.full /\ GoodReq(conn.req)
          /\ ~conn.split /\ ~eof["server"]
          /\ conn.outcome \notin {"pending", "fork_failed"}
       => conn.outcome = "dispatched"

\* The server enters the receive of a request: the deadline of the receive
\* is ServerTimeout seconds after the accept.
C11_RecvDeadline ==
    srv.pc = "accept" /\ srv'.pc = "recv" =>
       io'["server"].etime = Deadline(now, ServerTimeout)

\* C11: for every connection the server accepts, whatever was received
\* before it, the receive of the request is bounded by ServerTimeout
\* seconds: a receive that times out does so ServerTimeout seconds after
\* the accept, the server then closes the accepted socket and is in accept
\* again.
C11_RequestBounded ==
    /\ [][C11_RecvDeadline]_vars
    /\ [](conn.outcome = "timed_out" => srv.pc = "accept" /\ eof["client"])

\* The accepted sockets the parent holds open: the ones it left open on
\* earlier passes of the loop, and the one of the connection it serves.
OpenAccepted ==
    srv.leaked + (IF srv.pc \in {"recv", "check", "wait"} THEN 1 ELSE 0)

\* C12: when the server rejects a request for its version or for its test
\* index, the client gets a closed connection: the accepted socket is closed
\* before the next accept, the parent never holds more than one accepted
\* socket open and leaves none open across passes of the accept loop.
C12_RejectCloses ==
    /\ conn.outcome \in {"version", "index"} => eof["client"]
    /\ OpenAccepted <= 1
    /\ srv.pc = "accept" => OpenAccepted = 0

\* The parent leaves the check of a request: one with an index out of the
\* table is rejected, with no fork, and the parent is in accept again; a
\* child is forked only for an index in the table, and it is the child of
\* that test.  The server checks the version first, so it is a request of
\* its own version that gets the message of the index.
C13_Check ==
    srv.pc = "check" /\ srv'.pc # "check" =>
       /\ BadIndex(Req["server"]) =>
             /\ srv'.pc = "accept" /\ child' = child /\ nchild' = nchild
             /\ ~VersionDiffers(Req["server"]) => conn'.outcome = "index"
       /\ nchild' > nchild =>
             /\ Req["server"].req_index \in 0..(NTests - 1)
             /\ child' = [pc |-> "start", test |-> Req["server"].req_index]

\* The test of a child does not change while the child lives.
C13_SameTest ==
    child # NoChild /\ child' # NoChild => child'.test = child.test

\* C13: the server dispatches no test for an index outside 0..N-1: no child
\* is forked, the request is rejected with bad request index and the accept
\* loop goes on; for an index in range the child runs the server function
\* of exactly that test.
C13_IndexGate ==
    /\ [][C13_Check /\ C13_SameTest]_vars
    /\ [](child # NoChild => child.test \in 0..(NTests - 1))
    /\ [](nchild = 0 <=> child = NoChild)
    /\ [](conn.outcome = "index" => BadIndex(Req["server"]))

\* After a request with index N was rejected, the next connection asks for
\* a test of the table and its child runs it.
C13_Witness ==
    /\ conn.prev = "index"
    /\ conn.outcome = "dispatched"
    /\ child = [pc |-> "test", test |-> conn.req.req_index]
    /\ ~conn.split

\* A child exists while another connection waits in the listen queue and
\* the parent is in waitpid.
C6_Witness ==
    /\ nchild = 1
    /\ child.pc = "test"
    /\ queued.n > 0
    /\ srv.pc = "wait"

\* The parent accepts only with no child alive.
C6_AcceptAfterReap ==
    srv.pc = "accept" /\ srv'.pc = "recv" => nchild = 0 /\ child = NoChild

\* A test function is entered by the child of a fork only, while the
\* parent is in waitpid.
C6_ParentRunsNoTest ==
    child.pc # "test" /\ child'.pc = "test" =>
       nchild = 1 /\ srv.pc = "wait" /\ srv' = srv

\* C6: at every moment at most one forked child of the server exists; the
\* parent does not accept a new connection until the child serving the
\* previous request has exited and been reaped by waitpid; the parent never
\* runs a test function.
C6_OneClientAtATime ==
    /\ [](nchild <= 1)
    /\ [](nchild = 0 <=> child = NoChild)
    /\ [](srv.pc \in {"accept", "recv", "check"} => nchild = 0)
    /\ [][C6_AcceptAfterReap /\ C6_ParentRunsNoTest]_vars

----------------------------------------------------------------------------
(* The client: do_args, client() and client_send_request.                  *)

\* What a step of the client leaves alone of the server's variables.
srvProc == <<srv, child, nchild, conn>>

\* client(): the request RReq of test t with the default parameters, and
\* the local Req.
ClientReq(t) == [ReqOf(<<VER_MAJ, VER_MIN>>, t, DefaultTimeout)
                   EXCEPT !.time = DefaultTime]

\* The server is done with every connection made so far.  The model holds
\* the channel of one connection: the client goes on to its next connection
\* when the server has left the one before.
ServerIdle == srv.pc \in {"init", "accept"} /\ queued.n = 0

\* do_args reaches a test name: client(test) runs up to the call of the
\* test's client function.
ClientCall ==
    /\ cl.pc = "args"
    /\ cl.tests # <<>>
    /\ ServerIdle
    /\ cl' = [cl EXCEPT !.pc = "connect", !.test = Head(cl.tests),
                        !.tests = Tail(cl.tests), !.sent = FALSE,
                        !.got = FALSE]
    /\ Req' = [Req EXCEPT !["client"] = ClientReq(Head(cl.tests))]
    /\ LStat' = [LStat EXCEPT !["client"] = StatZero]
    /\ Successful' = [Successful EXCEPT !["client"] = 0]
    /\ sy' = [sy EXCEPT !["client"] = NoSync]
    /\ xr' = [xr EXCEPT !["client"] = NoXchg]
    /\ UNCHANGED <<now, chan, eof, io, itimer, RStat, Res, ShowTable, srvv, tm, par, codec, view, cmd>>

\* client_send_request: connect succeeds, set_nonblock succeeds, the
\* request is encoded and send_mesg is entered.
ClConnect ==
    /\ cl.pc = "connect"
    /\ srv.pc # "init"
    /\ queued' = [n |-> queued.n + 1, total |-> queued.total + 1]
    /\ chan' = [p \in Sides |-> <<>>]
    /\ eof' = [p \in Sides |-> FALSE]
    /\ io' = [io EXCEPT !["client"] = IoFrame("client", "s", EncReq, ReqLen)]
    /\ cl' = [cl EXCEPT !.pc = "send"]
    /\ UNCHANGED <<now, Req, proc, srvProc, tm, par, codec, view, cmd>>

\* client_send_request: no server listens; error_die("Failed to connect").
ClConnectFail ==
    /\ cl.pc = "connect"
    /\ srv.pc = "init"
    /\ cl' = [cl EXCEPT !.pc = "exited", !.code = 1]
    /\ UNCHANGED <<now, Req, chan, eof, io, proc, srvv, tm, par, codec, view, cmd>>

\* client_send_request: send_mesg of the request has returned; die() on
\* failure, else the test's client function goes on.
ClSendDone ==
    /\ cl.pc = "send"
    /\ io["client"].pc \in IoReturned
    /\ io' = [io EXCEPT !["client"] = NoIo]
    /\ IF io["client"].pc = "ok"
       THEN /\ cl' = [cl EXCEPT !.pc = "body", !.sent = TRUE]
            /\ UNCHANGED eof
       ELSE /\ cl' = [cl EXCEPT !.pc = "exited", !.code = 1]
            /\ eof' = [eof EXCEPT !["server"] = TRUE]
    /\ UNCHANGED <<now, Req, chan, proc, srvv, tm, par, codec, view, cmd>>

----------------------------------------------------------------------------
(* The test quit: run_client_quit and run_server_quit.                     *)

\* run_client_quit: exit(0) follows synchronize() whatever it returned.
QuitStatusOfSync(synced) == IF synced THEN 0 ELSE 1
QuitStatus(synced) == 0

\* run_client_quit: synchronize() is called.
ClQuitSync ==
    /\ cl.pc = "body" /\ cl.test = QUIT_INDEX
    /\ sy["client"].pc = "none"
    /\ SyncEnter("client")
    /\ UNCHANGED <<now, Req, chan, eof, Successful, itimer, LStat, above>>

\* The process on side p is gone: its memory with it.
Gone(p) ==
    /\ io' = [io EXCEPT ![p] = NoIo]
    /\ Req' = [Req EXCEPT ![p] = ReqZero]
    /\ LStat' = [LStat EXCEPT ![p] = StatZero]
    /\ Successful' = [Successful EXCEPT ![p] = 0]
    /\ sy' = [sy EXCEPT ![p] = NoSync]
    /\ itimer' = [itimer EXCEPT ![p] = "off"]
    /\ xr' = [xr EXCEPT ![p] = NoXchg]

\* The client exits: its socket is closed, what was queued for it is
\* dropped, and so is what it sent on a connection the server has left.
ClientCloses ==
    /\ eof' = [eof EXCEPT !["server"] = TRUE]
    /\ chan' = [client |-> <<>>,
                server |-> IF srv.pc = "accept" THEN <<>> ELSE chan["server"]]

\* run_client_quit: synchronize() has returned; exit(0).
ClQuitExit ==
    /\ cl.pc = "body" /\ cl.test = QUIT_INDEX
    /\ sy["client"].pc \in {"ok", "failed"}
    /\ cl' = [cl EXCEPT !.pc = "exited",
                        !.synced = (sy["client"].pc = "ok"),
                        !.code = QuitStatus(sy["client"].pc = "ok")]
    /\ ClientCloses
    /\ Gone("client")
    /\ UNCHANGED <<now, RStat, Res, ShowTable, srvv, tm, par, codec, view, cmd>>

\* run_server_quit in the child: synchronize() is called.
ChildQuitSync ==
    /\ child.pc = "test" /\ child.test = QUIT_INDEX
    /\ sy["server"].pc = "none"
    /\ SyncEnter("server")
    /\ UNCHANGED <<now, Req, chan, eof, Successful, itimer, LStat, above>>

\* run_server_quit in the child: synchronize() has returned; read of one
\* byte from the non-blocking socket, whatever it yields; exit(0).
ChildQuitExit ==
    /\ child.pc = "test" /\ child.test = QUIT_INDEX
    /\ sy["server"].pc \in {"ok", "failed"}
    /\ chan' = [chan EXCEPT !["server"] = IF @ = <<>> THEN @ ELSE Tail(@)]
    /\ child' = [child EXCEPT !.pc = "zombie"]
    /\ UNCHANGED <<now, Req, eof, io, srv, nchild, conn, queued, proc,
                   beyondSrv>>

----------------------------------------------------------------------------
(* qperf host quit against the server, and the connections other clients   *)
(* make once that invocation is over.  The calls of the server succeed,    *)
(* and a process that can run runs: time passes only while every process   *)
(* waits.                                                                  *)

InitQuit ==
    /\ now = 0
    /\ Req = [p \in Sides |-> ReqZero]
    /\ chan = [p \in Sides |-> <<>>]
    /\ eof = [p \in Sides |-> FALSE]
    /\ io = [p \in Sides |-> NoIo]
    /\ AppInit

\* qperf host quit is started.
QuitRun ==
    /\ cl.pc = "none"
    /\ queued.total = 0
    /\ cl' = [NoClient EXCEPT !.pc = "args", !.tests = <<QUIT_INDEX>>]
    /\ io' = [io EXCEPT !["client"] = NoIo]
    /\ Req' = [Req EXCEPT !["client"] = ReqZero]
    /\ LStat' = [LStat EXCEPT !["client"] = StatZero]
    /\ Successful' = [Successful EXCEPT !["client"] = 0]
    /\ sy' = [sy EXCEPT !["client"] = NoSync]
    /\ itimer' = [itimer EXCEPT !["client"] = "off"]
    /\ UNCHANGED <<now, chan, eof, xr, RStat, Res, ShowTable, srvv, tm, par, codec, view, cmd>>

\* The server accepts the connection of the client.
SrvAcceptClient ==
    /\ cl.pc \notin {"none", "exited"}
    /\ SrvAcceptConn(Req["client"], Len(chan["server"]) = ReqLen, 0)
    /\ UNCHANGED <<now, Req, chan, eof, child, nchild, proc, beyondSrv>>

\* The client waits for the server to leave the connection: before its next
\* connection, and in the client function of a test that is no part of
\* qperf.c.
ClientHeld ==
    /\ ~ServerIdle
    /\ cl.pc = "body" => cl.test \notin {CONF_INDEX, QUIT_INDEX}

\* A process that waits: blocked in select, not running, or the parent in
\* accept with no connection queued or in waitpid.
Waits(p) ==
    \/ Blocked(p)
    \/ /\ io[p].pc = "none"
       /\ IF IsClient(p)
          THEN \/ cl.pc \in {"none", "exited"}
               \/ cl.pc \in {"args", "body"} /\ ClientHeld
          ELSE \/ srv.pc = "accept" /\ queued.n = 0
               \/ srv.pc = "wait" /\ child.pc = "none"

\* The earliest end of a select some process is blocked in.
NextWake ==
    LET ends == {io[p].etime : p \in {q \in Sides : Blocked(q)}}
    IN  CHOOSE t \in ends : \A u \in ends : t <= u

\* Every process waits: time passes until the first select runs out.
TickQuit ==
    /\ \A p \in Sides : Waits(p)
    /\ \E p \in Sides : Blocked(p)
    /\ now < NextWake
    /\ now' = NextWake
    /\ UNCHANGED <<Req, chan, eof, io, app>>

ClientStep ==
    \/ ClientCall
    \/ ClConnect
    \/ ClConnectFail
    \/ ClSendDone

QuitStep ==
    \/ ClQuitSync
    \/ ClQuitExit
    \/ ChildQuitSync
    \/ ChildQuitExit

\* After the invocation the next client connects.
QuitNext ==
    /\ cl.pc = "exited"
    /\ queued.total = 1
    /\ EnvConnect

ServerQuitStep ==
    \/ SrvListen
    \/ SrvAcceptClient
    \/ SrvAccept
    \/ SrvRecvFailed
    \/ SrvDecode
    \/ SrvRejectVersion
    \/ SrvRejectIndex
    \/ SrvFork
    \/ SrvReap
    \/ ChildStart

NextQuit ==
    \/ QuitRun
    \/ QuitNext
    \/ EnvSend
    \/ EnvClose
    \/ ClientStep
    \/ QuitStep
    \/ ServerQuitStep
    \/ \E p \in Sides : IoProgress(p)
    \/ \E p \in Sides : SyncStep(p)
    \/ TickQuit

SpecQuit == InitQuit /\ [][NextQuit]_vars

\* The steps the processes take by themselves.
QuitProgress ==
    \/ ClientStep
    \/ QuitStep
    \/ ServerQuitStep
    \/ \E p \in Sides : IoProgress(p)
    \/ \E p \in Sides : SyncStep(p)

SpecQuitFair == SpecQuit /\ WF_vars(QuitProgress) /\ WF_vars(TickQuit)

----------------------------------------------------------------------------
(* Claims on the test quit. *)

\* The connection the server accepted last is the one of qperf host quit,
\* and the server has forked a child for it.
QuitServed ==
    /\ conn.req = ClientReq(QUIT_INDEX)
    /\ conn.outcome = "dispatched"
    /\ ~conn.split

\* waitpid returns only for a child that has exited, and the parent then is
\* in accept with no child.
C10_OnlyChildExits ==
    srv.pc = "wait" /\ srv'.pc # "wait" =>
       child.pc = "zombie" /\ srv'.pc = "accept" /\ nchild' = 0

\* The invocation has exited with status 0, the child is reaped and the
\* parent is in accept again.
C10_Over ==
    cl.pc = "exited" /\ cl.code = 0 /\ srv.pc = "accept" /\ nchild = 0

\* C10: running test quit against a live server makes the client exit with
\* status 0, and the accept loop of the server goes on: only the forked
\* child exits, the parent reaps it and accepts and serves the next
\* connection.  The server is live for the invocation when it dispatches
\* the request.
C10_QuitTest ==
    /\ [](cl.pc = "exited" /\ (cl.sent \/ QuitServed) => cl.code = 0)
    /\ [](QuitServed => child.test = QUIT_INDEX \/ child = NoChild)
    /\ [][C10_OnlyChildExits]_vars
    /\ [](srv.pc = "accept" /\ queued.n > 0 =>
             ENABLED (SrvAccept \/ SrvAcceptClient))
    /\ (QuitServed ~> C10_Over)

\* The quit invocation was served and has exited with 0 after a barrier that
\* succeeded, and the connection after it has been dispatched too.
C10_Witness ==
    /\ cl.pc = "exited"
    /\ cl.code = 0
    /\ cl.synced
    /\ conn.prev = "dispatched"
    /\ conn.outcome = "dispatched"
    /\ conn.req # ClientReq(QUIT_INDEX)
    /\ nchild = 1

----------------------------------------------------------------------------
(* The end of a test run: sig_alrm, start_timing, stop_timing and
   set_finished, qperf.c 553-569 and 1636-1682, as the forked child runs
   them (qperf.c 1082-1086).  tm.frames is the stack of the process: the
   main flow at the bottom and one frame for every signal handler that has
   been entered and has not returned.  Only the frame on top runs. *)

\* The signals one test run gets are bounded.
MaxSignals == 2

\* Everything a step of the timing code leaves alone.
tmRest == <<Req, chan, eof, io, sy, Successful, xr, RStat, Res, ShowTable,
            srvv, cl, par, codec, view, cmd>>

\* The process whose timing is followed.
TmSide == "server"

\* set_signals: SIGALRM and SIGPIPE both run sig_alrm, with an empty sa_mask
\* and no SA_NODEFER.
Signals == {"SIGALRM", "SIGPIPE"}

\* SIGPIPE left with the action it has when a process starts.
DispositionDefault(sig) == IF sig = "SIGALRM" THEN "sig_alrm" ELSE "SIG_DFL"

\* What set_signals has installed for a signal.
Disposition(sig) == "sig_alrm"

Top == tm.frames[Len(tm.frames)]

SetTop(f) == [tm EXCEPT !.frames[Len(tm.frames)] = f]

InMain == Top.sig = "main"

\* The signals blocked now: the ones whose handler is running.
BlockedSignals == {tm.frames[i].sig : i \in 1..Len(tm.frames)}

\* Finished = 0; Successful = 0; then synchronize() of the test calls
\* start_timing(Req.time).
TmBegin ==
    /\ tm.pc = "none"
    /\ \E time \in 0..MaxTimeout :
          /\ tm' = [pc |-> "run", Finished |-> 0,
                    frames |-> <<[sig |-> "main", pc |-> "run", loaded |-> 0,
                                  was |-> 0]>>,
                    pend |-> {}, alarm |-> now + time * TicksPerSec,
                    nsig |-> 0]
          /\ StartTiming(TmSide, time)
    /\ UNCHANGED <<now, tmRest>>

\* The server function of the test has returned: stop_timing() calls
\* set_finished().
TmStop ==
    /\ tm.pc = "run"
    /\ InMain /\ Top.pc = "run"
    /\ tm' = SetTop([Top EXCEPT !.pc = "load"])
    /\ UNCHANGED <<now, itimer, LStat, tmRest>>

\* Finished++ == 0 on a volatile int that is no atomic object: the value is
\* loaded, ...
SfLoad ==
    /\ tm.pc = "run"
    /\ Top.pc = "load"
    /\ tm' = SetTop([Top EXCEPT !.pc = "store", !.loaded = tm.Finished])
    /\ UNCHANGED <<now, itimer, LStat, tmRest>>

\* ... the value plus one is stored, and the value loaded is compared to 0.
SfStore ==
    /\ tm.pc = "run"
    /\ Top.pc = "store"
    /\ tm' = [SetTop([Top EXCEPT !.pc = IF Top.loaded = 0 THEN "get"
                                        ELSE "ret"])
                EXCEPT !.Finished = Top.loaded + 1]
    /\ UNCHANGED <<now, itimer, LStat, tmRest>>

\* get_times(LStat.time_e)
SfGet ==
    /\ tm.pc = "run"
    /\ Top.pc = "get"
    /\ tm' = SetTop([Top EXCEPT !.pc = "ret"])
    /\ LStat' = [LStat EXCEPT ![TmSide].time_e = now, ![TmSide].ne = @ + 1]
    /\ UNCHANGED <<now, itimer, tmRest>>

\* sig_alrm returns.
SigReturn ==
    /\ tm.pc = "run"
    /\ ~InMain /\ Top.pc = "ret"
    /\ tm' = [tm EXCEPT !.frames = SubSeq(@, 1, Len(@) - 1)]
    /\ UNCHANGED <<now, itimer, LStat, tmRest>>

\* stop_timing after set_finished: setitimer(ITIMER_REAL, {0}); a signal that
\* is pending stays pending.
TmDisarm ==
    /\ tm.pc = "run"
    /\ InMain /\ Top.pc = "ret"
    /\ tm' = SetTop([Top EXCEPT !.pc = "done"])
    /\ itimer' = [itimer EXCEPT ![TmSide] = "off"]
    /\ UNCHANGED <<now, LStat, tmRest>>

\* A pending signal that is not blocked is delivered between any two
\* instructions: sig_alrm is entered and calls set_finished().
Deliver(sig) ==
    /\ tm.pc = "run"
    /\ sig \in tm.pend
    /\ sig \notin BlockedSignals
    /\ tm' = [tm EXCEPT !.pend = @ \ {sig},
                        !.frames = Append(@, [sig |-> sig, pc |-> "load",
                                              loaded |-> 0,
                                              was |-> tm.Finished])]
    /\ UNCHANGED <<now, itimer, LStat, tmRest>>

\* it_value has run out: SIGALRM, and the timer is armed again with
\* it_interval.
TimerExpire ==
    /\ tm.pc = "run"
    /\ itimer[TmSide] = "armed"
    /\ now >= tm.alarm
    /\ tm.nsig < MaxSignals
    /\ tm' = [tm EXCEPT !.pend = @ \cup {"SIGALRM"}, !.nsig = @ + 1]
    /\ itimer' = [itimer EXCEPT ![TmSide] = "repeat"]
    /\ UNCHANGED <<now, LStat, tmRest>>

\* it_interval is one microsecond, less than a tick of the clock: the timer
\* expires again at once, as long as it is not disarmed.
TimerRepeat ==
    /\ tm.pc = "run"
    /\ itimer[TmSide] = "repeat"
    /\ "SIGALRM" \notin tm.pend
    /\ tm.nsig < MaxSignals
    /\ tm' = [tm EXCEPT !.pend = @ \cup {"SIGALRM"}, !.nsig = @ + 1]
    /\ UNCHANGED <<now, itimer, LStat, tmRest>>

\* The test writes to a connection the peer has closed: write() raises
\* SIGPIPE, which is delivered as the call returns.
BrokenPipe ==
    /\ tm.pc = "run"
    /\ InMain /\ Top.pc = "run"
    /\ tm.nsig < MaxSignals
    /\ tm' = IF Disposition("SIGPIPE") = "sig_alrm"
              THEN [tm EXCEPT !.nsig = @ + 1,
                              !.frames = Append(@, [sig |-> "SIGPIPE",
                                                    pc |-> "load",
                                                    loaded |-> 0,
                                                    was |-> tm.Finished])]
              ELSE [tm EXCEPT !.pc = "killed"]
    /\ UNCHANGED <<now, itimer, LStat, tmRest>>

TickTimer ==
    /\ tm.pc = "run"
    /\ now < tm.alarm + TicksPerSec
    /\ now' = now + 1
    /\ UNCHANGED <<itimer, LStat, tm, tmRest>>

InitTimer ==
    /\ now \in 0..MaxStart
    /\ Req = [p \in Sides |-> ReqZero]
    /\ chan = [p \in Sides |-> <<>>]
    /\ eof = [p \in Sides |-> FALSE]
    /\ io = [p \in Sides |-> NoIo]
    /\ AppInit

SetFinished == SfLoad \/ SfStore \/ SfGet

NextTimer ==
    \/ TmBegin
    \/ TmStop
    \/ SetFinished
    \/ SigReturn
    \/ TmDisarm
    \/ \E sig \in Signals : Deliver(sig)
    \/ TimerExpire
    \/ TimerRepeat
    \/ BrokenPipe
    \/ TickTimer

SpecTimer == InitTimer /\ [][NextTimer]_vars

\* stop_timing has returned and no handler is running.
TimingOver == tm.pc = "run" /\ Len(tm.frames) = 1 /\ Top.pc = "done"

\* C7: within one test run the end ticks LStat.time_e are recorded exactly
\* once, by the first of sig_alrm and stop_timing that raises Finished from
\* 0, whenever the signals are delivered: never twice, and once when
\* stop_timing has returned.
C7_EndTicksOnce ==
    /\ tm.pc = "run" => LStat[TmSide].ne <= 1
    /\ TimingOver => LStat[TmSide].ne = 1

----------------------------------------------------------------------------
(* The test conf: run_client_conf, run_server_conf, qperf.c 1453-1483.     *)

\* The CONF record (qperf.h) goes over the stream as it lies in memory.
ConfLen == RecLen
EncConf == [i \in 1..ConfLen |-> i]

ConfNames == <<"loc_node", "loc_cpu", "loc_os", "loc_qperf",
               "rem_node", "rem_cpu", "rem_os", "rem_qperf">>

\* The eight view_strn('a', ...) of run_client_conf: verbose('a', ...) is 1
\* whatever the string, so every row is placed; the loc_ rows show lconf of
\* get_conf, the rem_ rows what is in rconf.
ConfRows(rconf) ==
    [i \in 1..Len(ConfNames) |->
        [name |-> ConfNames[i],
         value |-> IF i <= 4 THEN "lconf"
                   ELSE IF rconf = EncConf THEN "rconf" ELSE "undefined"]]

\* run_client_conf: client_send_request has returned; recv_mesg(&rconf,
\* sizeof(rconf), "configuration") is entered.
ClConfRecv ==
    /\ cl.pc = "body" /\ cl.test = CONF_INDEX
    /\ io["client"].pc = "none"
    /\ io' = [io EXCEPT
                !["client"] = IoFrame("client", "r", UninitBuf(ConfLen), ConfLen)]
    /\ cl' = [cl EXCEPT !.pc = "conf"]
    /\ UNCHANGED <<now, Req, chan, eof, proc, srvv, tm, par, codec, view, cmd>>

\* run_client_conf: recv_mesg has returned; return if it failed, else
\* get_conf and the eight rows.
ClConfDone ==
    /\ cl.pc = "conf"
    /\ io["client"].pc \in IoReturned
    /\ io' = [io EXCEPT !["client"] = NoIo]
    /\ ShowTable' = IF io["client"].pc = "ok"
                    THEN ShowTable \o ConfRows(io["client"].buf)
                    ELSE ShowTable
    /\ cl' = [cl EXCEPT !.pc = "return", !.got = (io["client"].pc = "ok")]
    /\ UNCHANGED <<now, Req, chan, eof, sy, Successful, itimer, LStat, xr,
                   RStat, Res, srvv, tm, par, codec, view, cmd>>

\* run_server_conf in the child: get_conf; send_mesg(&conf, sizeof(conf),
\* "configuration") is entered.
ChildConfSend ==
    /\ child.pc = "test" /\ child.test = CONF_INDEX
    /\ io["server"].pc = "none"
    /\ io' = [io EXCEPT
                !["server"] = IoFrame("server", "s", EncConf, ConfLen)]
    /\ UNCHANGED <<now, Req, chan, eof, proc, srvv, beyondSrv>>

\* run_server_conf in the child: send_mesg has returned, and so does the
\* test.
ChildConfDone ==
    /\ child.pc = "test" /\ child.test = CONF_INDEX
    /\ io["server"].pc \in IoReturned
    /\ io' = [io EXCEPT !["server"] = NoIo]
    /\ child' = [child EXCEPT !.pc = "returned"]
    /\ conn' = [conn EXCEPT !.outcome = IF io["server"].pc = "ok"
                                        THEN "answered" ELSE @]
    /\ UNCHANGED <<now, Req, chan, eof, proc, srv, nchild, queued,
                   beyondSrv>>

ConfStep ==
    \/ ClConfRecv
    \/ ClConfDone
    \/ ChildConfSend
    \/ ChildConfDone

----------------------------------------------------------------------------
(* One invocation of the client, qperf host test ..., against the server:  *)
(* main, do_args and client(), qperf.c 472-479, 575-603, 1174-1208.        *)

\* The tests one invocation names are bounded.
MaxTests == 2

\* test(rds_bw): its functions are no part of qperf.c.
RDS_BW_INDEX == 2

ClientTests == {CONF_INDEX, RDS_BW_INDEX}

TestSeqs == UNION {[1..n -> ClientTests] : n \in 1..MaxTests}

\* client(): if (!Successful) ExitStatus = 1;
ExitOfLast(status, successful) == IF successful = 0 THEN 1 ELSE 0
ExitOf(status, successful) == IF successful = 0 THEN 1 ELSE status

\* qperf host test ... is started.
ClientRun ==
    /\ cl.pc = "none"
    /\ \E ts \in TestSeqs : cl' = [NoClient EXCEPT !.pc = "args", !.tests = ts]
    /\ UNCHANGED <<now, Req, chan, eof, io, proc, srvv, tm, par, codec, view, cmd>>

\* The client function of a test that is no part of qperf.c returns, with
\* Successful set or not; it can be set only if the server ran the test.
ClBodyOther ==
    /\ cl.pc = "body" /\ cl.test \notin {CONF_INDEX, QUIT_INDEX}
    /\ ServerIdle
    /\ \E ok \in {0, 1} :
          /\ ok = 1 => conn.outcome = "dispatched"
          /\ Successful' = [Successful EXCEPT !["client"] = ok]
    /\ cl' = [cl EXCEPT !.pc = "return"]
    /\ UNCHANGED <<now, Req, chan, eof, io, sy, itimer, LStat, xr, RStat, Res,
                   ShowTable, srvv, tm, par, codec, view, cmd>>

\* The server function of such a test returns in the child.
ChildOther ==
    /\ child.test \notin {CONF_INDEX, QUIT_INDEX}
    /\ ChildTest

\* client() after the test: close(RemoteFD); if (!Successful) ExitStatus =
\* 1; place_show() prints the rows and empties the table.
ClientReturn ==
    /\ cl.pc = "return"
    /\ cl' = [cl EXCEPT
                !.pc = "args",
                !.ExitStatus = ExitOf(@, Successful["client"]),
                !.results = Append(@, [test |-> cl.test,
                                       Successful |-> Successful["client"],
                                       got |-> cl.got,
                                       rows |-> ShowTable])]
    /\ ShowTable' = <<>>
    /\ eof' = [eof EXCEPT !["server"] = TRUE]
    /\ chan' = [chan EXCEPT !["client"] = <<>>]
    /\ UNCHANGED <<now, Req, io, sy, Successful, itimer, LStat, xr, RStat,
                   Res, srvv, tm, par, codec, view, cmd>>

\* do_args has no argument left: main returns ExitStatus.
MainReturn ==
    /\ cl.pc = "args"
    /\ cl.tests = <<>>
    /\ cl' = [cl EXCEPT !.pc = "exited", !.code = cl.ExitStatus,
                        !.returned = TRUE]
    /\ ClientCloses
    /\ Gone("client")
    /\ UNCHANGED <<now, RStat, Res, ShowTable, srvv, tm, par, codec, view, cmd>>

\* The server, its calls succeeding.
ServerClientStep ==
    \/ SrvListen
    \/ SrvAcceptClient
    \/ SrvRecvFailed
    \/ SrvDecode
    \/ SrvFork
    \/ SrvReap
    \/ ChildStart
    \/ ChildOther
    \/ ChildExit

NextClient ==
    \/ ClientRun
    \/ ClientStep
    \/ ConfStep
    \/ ClBodyOther
    \/ ClientReturn
    \/ MainReturn
    \/ ServerClientStep
    \/ \E p \in Sides : IoAwake(p)

SpecClient == InitQuit /\ [][NextClient]_vars

----------------------------------------------------------------------------
(* Claims on the exit status and on the test conf. *)

\* main has returned.
MainReturned == cl.pc = "exited" /\ cl.returned

\* Successful was set at the end of every test the invocation ran.
AllSuccessful ==
    \A i \in 1..Len(cl.results) : cl.results[i].Successful = 1

ConfAnswered ==
    /\ MainReturned
    /\ Len(cl.results) = 1
    /\ cl.results[1].test = CONF_INDEX
    /\ cl.results[1].got
    /\ conn.outcome = "answered"

\* The rows the only test of the invocation placed.
ConfPlaced == [i \in 1..Len(cl.results[1].rows) |-> cl.results[1].rows[i].name]

\* C9: with a server that runs and answers the request with its
\* configuration record, qperf host conf places the eight rows loc_node,
\* loc_cpu, loc_os, loc_qperf, rem_node, rem_cpu, rem_os, rem_qperf, and the
\* process exits with status 0.
C9_ConfTest ==
    ConfAnswered => ConfPlaced = ConfNames /\ cl.code = 0

-----------------------------------------------------------------------------
(* The parameter table: ParInfo, the option handlers that fill it, the     *)
(* start of a client test, which applies the defaults, and opt_check.      *)

\* Arguments after the host name, and distinct values an option is given.
MaxArgs == 3
MaxVal == 2

\* No option name is recorded (a null PAR_INFO.name); no second parameter.
NoName == ""
P_NULL == "P_NULL"

\* The rows of ParInfo followed here, in the order of the table.
ParOrder == <<"L_ID", "R_ID", "L_MSG_SIZE", "R_MSG_SIZE", "L_NO_MSGS",
              "R_NO_MSGS", "L_TIME", "R_TIME", "L_TIMEOUT", "R_TIMEOUT">>
ParSlots == {ParOrder[i] : i \in DOMAIN ParOrder}
PosOf(index) == CHOOSE i \in DOMAIN ParOrder : ParOrder[i] = index

\* ParInfo as the program starts: static storage, all zero.
ParZero ==
    [index \in ParSlots |-> [name |-> NoName, set |-> FALSE, used |-> FALSE,
                             inuse |-> FALSE, val |-> 0]]

\* The rows of Options followed here.
Options ==
    {[name |-> "--id", func |-> "opt_strn", arg1 |-> "L_ID", arg2 |-> "R_ID"],
     [name |-> "--loc_id", func |-> "opt_strn", arg1 |-> "L_ID",
      arg2 |-> P_NULL],
     [name |-> "--msg_size", func |-> "opt_size", arg1 |-> "L_MSG_SIZE",
      arg2 |-> "R_MSG_SIZE"],
     [name |-> "--no_msgs", func |-> "opt_long", arg1 |-> "L_NO_MSGS",
      arg2 |-> "R_NO_MSGS"],
     [name |-> "--time", func |-> "opt_time", arg1 |-> "L_TIME",
      arg2 |-> "R_TIME"],
     [name |-> "--timeout", func |-> "opt_time", arg1 |-> "L_TIMEOUT",
      arg2 |-> "R_TIMEOUT"]}
OptionNamed(name) == CHOOSE o \in Options : o.name = name

\* The values given to an option: --id and --msg_size take each of them.
OptVals(o) ==
    IF o.name \in {"--id", "--msg_size"} THEN 1..MaxVal ELSE {1}

\* The tests named on the command line: quit, and one whose body is
\* outside this file.
ParTests == {"quit", "rds_bw"}

\* The parameters the body of rds_bw may consult.
BodySlots == {"L_MSG_SIZE", "R_MSG_SIZE"}

\* The tokens of a command line after the host name.
ArgTokens ==
    {[kind |-> "opt", name |-> o.name, val |-> v] :
        <<o, v>> \in {ov \in Options \X (1..MaxVal) : ov[2] \in OptVals(ov[1])}}
    \cup {[kind |-> "test", name |-> t, val |-> 0] : t \in ParTests}
ArgLists == UNION {[1..n -> ArgTokens] : n \in 1..MaxArgs}

\* par_set: a named assignment records the name and sets the flag; an
\* unnamed one marks the parameter used and is refused when a name is
\* recorded.
par_set_unrefused(info, name, index) ==
    IF index = P_NULL THEN [info |-> info, p |-> FALSE]
    ELSE IF name # NoName
    THEN [info |-> [info EXCEPT ![index].name = name, ![index].set = TRUE],
          p |-> TRUE]
    ELSE [info |-> [info EXCEPT ![index].used = TRUE, ![index].inuse = TRUE],
          p |-> TRUE]
par_set(info, name, index) ==
    IF index = P_NULL THEN [info |-> info, p |-> FALSE]
    ELSE IF name # NoName
    THEN [info |-> [info EXCEPT ![index].name = name, ![index].set = TRUE],
          p |-> TRUE]
    ELSE [info |-> [info EXCEPT ![index].used = TRUE, ![index].inuse = TRUE],
          p |-> info[index].name = NoName]

\* A setter that stores the value in the slot of every 32-bit parameter.
setp_u32_every(info, name, index, l) ==
    IF index = P_NULL THEN info
    ELSE [i \in DOMAIN info |->
            IF i \in {"L_ID", "R_ID", "L_RATE", "R_RATE"} THEN info[i]
            ELSE [info[i] EXCEPT !.val = l]]

\* setp_u32 and setp_str: the value is stored unless par_set refused.
setp_u32(info, name, index, l) ==
    LET r == par_set(info, name, index)
    IN  IF r.p THEN [r.info EXCEPT ![index].val = l] ELSE r.info
setp_str(info, name, index, s) ==
    LET r == par_set(info, name, index)
    IN  IF r.p THEN [r.info EXCEPT ![index].val = s] ELSE r.info

par_use(info, index) ==
    [info EXCEPT ![index].used = TRUE, ![index].inuse = TRUE]
par_isset(info, index) == info[index].name # NoName

\* opt_long, opt_size, opt_strn and opt_time: both parameters of the row.
OptFunc(info, option, v) ==
    IF option.func = "opt_strn"
    THEN setp_str(setp_str(info, option.name, option.arg1, v),
                  option.name, option.arg2, v)
    ELSE setp_u32(setp_u32(info, option.name, option.arg1, v),
                  option.name, option.arg2, v)

\* opt_check passes over a parameter that was used or was not set.
OptSkipsUnset(p) == ~p.set
OptSkips(p) == p.used \/ ~p.set

\* opt_check clears the flag of a later parameter set by the same option.
DuplicateOfAny(q, p) == q.set
Duplicate(q, p) == q.set /\ q.name = p.name

\* opt_check: the sweep from row i on.  seen is what each row looked like
\* when the sweep reached it.
RECURSIVE OptCheckFrom(_, _, _, _)
OptCheckFrom(i, info, warned, seen) ==
    IF i > Len(ParOrder) THEN [info |-> info, warned |-> warned, seen |-> seen]
    ELSE LET index == ParOrder[i]
             p == info[index]
             saw == [seen EXCEPT ![index] = p]
         IN  IF OptSkips(p) THEN OptCheckFrom(i + 1, info, warned, saw)
             ELSE OptCheckFrom(
                     i + 1,
                     [q \in ParSlots |->
                        IF PosOf(q) > i /\ Duplicate(info[q], p)
                        THEN [info[q] EXCEPT !.set = FALSE] ELSE info[q]],
                     Append(warned, [index |-> index, name |-> p.name]),
                     saw)
opt_check(info) == OptCheckFrom(1, info, <<>>, info)

\* client(): the loop that clears inuse in every row of the table.
ClearInuseAndUsed(info) ==
    [index \in ParSlots |->
       [info[index] EXCEPT !.inuse = FALSE, !.used = FALSE]]
ClearInuse(info) ==
    [index \in ParSlots |-> [info[index] EXCEPT !.inuse = FALSE]]

\* client(): inuse is cleared, the defaults are applied and the times are
\* marked used.
ClientDefaults(info) ==
    LET a == ClearInuse(info)
        b == IF ~par_isset(a, "L_NO_MSGS")
             THEN setp_u32(a, NoName, "L_TIME", DefaultTime) ELSE a
        c == IF ~par_isset(b, "R_NO_MSGS")
             THEN setp_u32(b, NoName, "R_TIME", DefaultTime) ELSE b
        d == setp_u32(c, NoName, "L_TIMEOUT", DefaultTimeout)
        e == setp_u32(d, NoName, "R_TIMEOUT", DefaultTimeout)
    IN  par_use(par_use(e, "L_TIME"), "R_TIME")

\* The parameters client() itself consults at the start of every test.
WrapperSlots == {"L_TIME", "R_TIME", "L_TIMEOUT", "R_TIMEOUT"}

\* main() has the host name and do_args starts on what follows it.
ParStart(args) ==
    [pc |-> "args", given |-> args, args |-> args, info |-> ParZero,
     TestName |-> "", consulted |-> {}, warned |-> <<>>, seen |-> ParZero,
     live |-> TRUE, code |-> 0]

\* do_args: an option; its handler takes the value that follows it.
ParOption ==
    /\ par.pc = "args" /\ par.args # <<>>
    /\ Head(par.args).kind = "opt"
    /\ par' = [par EXCEPT
                !.info = OptFunc(@, OptionNamed(Head(par.args).name),
                                 Head(par.args).val),
                !.args = Tail(@)]
    /\ UNCHANGED <<now, Req, chan, eof, io, proc, srvv, tm, cl, codec, view, cmd>>

\* do_args: a test; client() prepares the table and calls the test.
ParClient ==
    /\ par.pc = "args" /\ par.args # <<>>
    /\ Head(par.args).kind = "test"
    /\ par' = [par EXCEPT
                !.pc = "body",
                !.info = ClientDefaults(@),
                !.TestName = Head(par.args).name,
                !.consulted = {},
                !.args = Tail(@)]
    /\ UNCHANGED <<now, Req, chan, eof, io, proc, srvv, tm, cl, codec, view, cmd>>

\* The body of rds_bw consults a parameter.
ParBodyUse(index) ==
    /\ par.pc = "body" /\ par.TestName = "rds_bw"
    /\ index \notin par.consulted
    /\ par' = [par EXCEPT !.info = par_use(@, index),
                          !.consulted = @ \cup {index}]
    /\ UNCHANGED <<now, Req, chan, eof, io, proc, srvv, tm, cl, codec, view, cmd>>

\* opt_check is called: by run_client_quit first of all, by the body of
\* rds_bw when it has consulted its parameters.
ParOptCheck ==
    /\ par.pc = "body"
    /\ LET r == opt_check(par.info)
       IN  par' = [par EXCEPT
                    !.pc = "checked",
                    !.info = r.info,
                    !.seen = r.seen,
                    !.warned = @ \o [k \in DOMAIN r.warned |->
                                       [index |-> r.warned[k].index,
                                        name |-> r.warned[k].name,
                                        test |-> par.TestName]]]
    /\ UNCHANGED <<now, Req, chan, eof, io, proc, srvv, tm, cl, codec, view, cmd>>

\* run_client_quit after opt_check: the request is sent, which ends the
\* process with status 1 when no server is reached, and exit(0) follows
\* synchronize().
ParQuitExit(live) ==
    /\ par.pc = "checked" /\ par.TestName = "quit"
    /\ par' = [par EXCEPT !.pc = "exited", !.live = live,
                          !.code = IF live THEN QuitStatus(TRUE) ELSE 1]
    /\ UNCHANGED <<now, Req, chan, eof, io, proc, srvv, tm, cl, codec, view, cmd>>

\* The body of rds_bw returns, client() returns and do_args goes on.
ParReturn ==
    /\ par.pc = "checked" /\ par.TestName = "rds_bw"
    /\ par' = [par EXCEPT !.pc = "args"]
    /\ UNCHANGED <<now, Req, chan, eof, io, proc, srvv, tm, cl, codec, view, cmd>>

\* do_args is out of arguments: with no test named it ends the process.
ParEnd ==
    /\ par.pc = "args" /\ par.args = <<>>
    /\ par' = [par EXCEPT
                !.pc = IF par.TestName = "" THEN "exited" ELSE "returned",
                !.code = IF par.TestName = "" THEN 1 ELSE @]
    /\ UNCHANGED <<now, Req, chan, eof, io, proc, srvv, tm, cl, codec, view, cmd>>

InitPar ==
    /\ now = 0
    /\ Req = [p \in Sides |-> ReqZero]
    /\ chan = [p \in Sides |-> <<>>]
    /\ eof = [p \in Sides |-> FALSE]
    /\ io = [p \in Sides |-> NoIo]
    /\ AppBase
    /\ \E args \in ArgLists : par = ParStart(args)
    /\ codec = NoCodec /\ view = NoView /\ cmd = NoCmd

NextPar ==
    \/ ParOption
    \/ ParClient
    \/ \E index \in BodySlots : ParBodyUse(index)
    \/ ParOptCheck
    \/ \E live \in BOOLEAN : ParQuitExit(live)
    \/ ParReturn
    \/ ParEnd

SpecPar == InitPar /\ [][NextPar]_vars

-----------------------------------------------------------------------------
(* What the parameter table holds after the options of a command line.     *)

\* The arguments do_args has gone through so far.
ParDone == SubSeq(par.given, 1, Len(par.given) - Len(par.args))

\* The option of token tok assigns to the parameter index.
Targets(tok, index) ==
    /\ tok.kind = "opt"
    /\ index \in {OptionNamed(tok.name).arg1, OptionNamed(tok.name).arg2}
TargetsOf(index) == {k \in DOMAIN ParDone : Targets(ParDone[k], index)}

\* The first and the last of the options gone through that assign to index.
FirstFor(index) ==
    ParDone[CHOOSE k \in TargetsOf(index) : \A j \in TargetsOf(index) : k <= j]
LastFor(index) ==
    ParDone[CHOOSE k \in TargetsOf(index) : \A j \in TargetsOf(index) : k >= j]

\* C14: a parameter that options were applied to holds the value and the
\* name of the first of them: a named assignment to a parameter whose name
\* is recorded changes nothing.
C14_FirstWins ==
    par.pc # "none" =>
       \A index \in ParSlots :
          TargetsOf(index) # {} =>
             /\ par.info[index].val = FirstFor(index).val
             /\ par.info[index].name = FirstFor(index).name

\* The warnings the step has added.
NewWarnings == {par'.warned[k] : k \in (DOMAIN par'.warned) \ DOMAIN par.warned}

\* The step is the call of opt_check.
OptCheckStep == par.pc = "body" /\ par'.pc = "checked"

C15_Kept(index) == par.info[index].set => par'.info[index].set

\* C15 as stated: once set is true for a parameter, no later step of the
\* invocation makes it false.
C15_SetSticky ==
    [][par.pc # "none" => \A index \in ParSlots : C15_Kept(index)]_vars

\* C15: the set flag of a parameter is made false by opt_check only, and only
\* when opt_check has just warned about an earlier parameter of the table
\* recorded under the same option name; options, the start of a test and
\* par_use leave a true set flag true.
C15_SetClearedByCheck ==
    [][par.pc # "none" =>
         \A index \in ParSlots :
            C15_Kept(index) \/
               /\ OptCheckStep
               /\ \E w \in NewWarnings :
                     /\ w.name = par.info[index].name
                     /\ PosOf(w.index) < PosOf(index)]_vars

\* opt_check has cleared the set flag of a parameter an option had set.
C15_Witness ==
    /\ par.pc = "checked"
    /\ \E index \in ParSlots :
          /\ ~par.info[index].set
          /\ par.info[index].name # NoName
          /\ ~par.seen[index].set

\* The parameters the test that runs, or client() for it, has consulted.
ConsultedNow == par.consulted \cup WrapperSlots

\* C16 as stated: when opt_check has run, a parameter has used true only if
\* the test that runs, or client() for it, consulted it.
C16_UsedPerTest ==
    par.pc = "checked" =>
       \A index \in ParSlots : par.info[index].used => index \in ConsultedNow

C16_UsedKept ==
    par.pc # "none" =>
       \A index \in ParSlots : par.info[index].used => par'.info[index].used

\* C16: the start of a client test resets inuse only.  The used flag of a
\* parameter is never reset within an invocation; inuse is true exactly for
\* the parameters the test that runs, or client() for it, has consulted, and
\* a parameter in use is marked used.
C16_InusePerTest ==
    /\ [][C16_UsedKept]_vars
    /\ [](par.pc \in {"body", "checked"} =>
            \A index \in ParSlots :
               /\ par.info[index].inuse <=> index \in ConsultedNow
               /\ par.info[index].inuse => par.info[index].used)

\* opt_check has run in a test that did not consult a parameter an earlier
\* test of the invocation consulted: it is marked used and not in use.
C16_Witness ==
    /\ par.pc = "checked"
    /\ \E index \in BodySlots :
          /\ par.info[index].used
          /\ ~par.info[index].inuse
          /\ index \notin ConsultedNow

\* The warnings of the step given for the parameter index.
WarnedFor(index) == {w \in NewWarnings : w.index = index}

\* The parameters before index in the table that the step warned about
\* under the option name of index.
WarnedBefore(index) ==
    {w \in NewWarnings : /\ PosOf(w.index) < PosOf(index)
                         /\ w.name = par.info[index].name}

\* Both parameters of the option o were set by it and neither was used.
FannedOutUnused(o) ==
    /\ o.arg2 # P_NULL
    /\ \A index \in {o.arg1, o.arg2} :
          /\ par.info[index].set /\ par.info[index].name = o.name
          /\ ~par.info[index].used

C17_Sweep ==
    OptCheckStep =>
       /\ \A index \in ParSlots :
             /\ par'.seen[index].used = par.info[index].used
             /\ par'.seen[index].set =
                   (par.info[index].set /\ WarnedBefore(index) = {})
             /\ WarnedFor(index) # {} <=>
                   par'.seen[index].set /\ ~par'.seen[index].used
       /\ \A w \in NewWarnings :
             /\ w.name = par.info[w.index].name /\ w.test = par.TestName
             /\ \A q \in ParSlots :
                   PosOf(q) > PosOf(w.index) /\ par.info[q].name = w.name =>
                      ~par'.info[q].set
       /\ \A o \in Options :
             FannedOutUnused(o) =>
                Cardinality({w \in NewWarnings : w.name = o.name}) = 1

\* C17: opt_check warns about a parameter, under its option name and the
\* name of the test, exactly when the parameter is set and not used as the
\* sweep reaches it; after a warning no later parameter recorded under the
\* same option name is left set; an option that set both of its parameters,
\* neither of them used, gets exactly one warning.
C17_WarnUnused == [][C17_Sweep]_vars

\* --msg_size was given and neither side used: one warning, for the local
\* parameter, and the set flag of the remote one is cleared.
C17_Witness ==
    /\ par.pc = "checked"
    /\ par.seen["L_MSG_SIZE"].set /\ ~par.seen["L_MSG_SIZE"].used
    /\ par.info["R_MSG_SIZE"].name = "--msg_size"
    /\ ~par.info["R_MSG_SIZE"].used /\ ~par.info["R_MSG_SIZE"].set
    /\ par.warned = <<[index |-> "L_MSG_SIZE", name |-> "--msg_size",
                       test |-> par.TestName]>>

\* The command line is <host> quit --msg_size v.
QuitThenMsgSize ==
    /\ Len(par.given) = 2
    /\ par.given[1] = [kind |-> "test", name |-> "quit", val |-> 0]
    /\ par.given[2].kind = "opt" /\ par.given[2].name = "--msg_size"

\* C18: the invocation <host> quit --msg_size v, with a server to reach, ends
\* with status 0 and has written the warning that --msg_size was set but not
\* used in test quit.
C18_QuitWarns ==
    QuitThenMsgSize /\ par.pc = "exited" /\ par.live =>
       /\ par.code = 0
       /\ \E k \in DOMAIN par.warned :
             par.warned[k].name = "--msg_size" /\ par.warned[k].test = "quit"

\* The step is the start of a client test: client() up to the call of the
\* test.
TestStart == par.pc = "args" /\ par'.pc = "body"

TimeSlots == {"L_TIME", "R_TIME"}
TimeoutSlots == {"L_TIMEOUT", "R_TIMEOUT"}

C19_Start ==
    TestStart =>
       /\ ~par_isset(par.info, "L_NO_MSGS") /\ ~par_isset(par.info, "R_NO_MSGS")
             => \A index \in TimeSlots :
                   ~par_isset(par.info, index) =>
                      par'.info[index].val = DefaultTime
       /\ \A index \in TimeoutSlots :
             ~par_isset(par.info, index) =>
                par'.info[index].val = DefaultTimeout
       /\ \A index \in ParSlots :
             /\ par_isset(par.info, index) =>
                   par'.info[index].val = par.info[index].val
             /\ par'.info[index].name = par.info[index].name
             /\ par'.info[index].set = par.info[index].set

\* C19: at the start of every client test, with no number of messages given
\* by the user, the time of each side the user gave no value for becomes 2,
\* and the timeout of each side the user gave no value for becomes 5; a
\* value the user gave is left as it is, at the start of a test and after
\* it, and a default changes neither the name nor the set flag of a
\* parameter.
C19_Defaults ==
    /\ [][C19_Start]_vars
    /\ [](par.pc # "none" =>
            \A index \in TimeSlots \cup TimeoutSlots :
               /\ TargetsOf(index) # {} =>
                     par.info[index].val = LastFor(index).val
               /\ TargetsOf(index) = {} =>
                     ~par.info[index].set /\ par.info[index].name = NoName)

\* A test has started after --timeout was given and --time was not: the
\* times hold the default, unnamed, and the timeouts what the user gave.
C19_Witness ==
    /\ par.pc = "body"
    /\ \A index \in TimeSlots :
          /\ par.info[index].val = DefaultTime
          /\ par.info[index].name = NoName /\ ~par.info[index].set
    /\ \A index \in TimeoutSlots :
          /\ par.info[index].name = "--timeout" /\ par.info[index].set
          /\ par.info[index].val = LastFor(index).val
          /\ par.info[index].val # DefaultTimeout

-----------------------------------------------------------------------------
(* Failures of the framed I/O in a client test.                            *)

\* A call of send_mesg or recv_mesg made for the test has returned false
\* and the step is the caller's next one.
ClientIoFailed ==
    /\ cl.pc \in {"send", "conf"}
    /\ io["client"].pc \in IoFailed
    /\ cl' # cl

\* The step is client() after the test: ExitStatus, place_show, and back to
\* do_args.
AfterTest == cl.pc = "return" /\ cl' # cl

C20_Step ==
    /\ ClientIoFailed => cl'.pc = "return"
    /\ AfterTest /\ Successful["client"] = 0 =>
          /\ cl'.pc = "args" /\ cl'.tests = cl.tests
          /\ cl'.ExitStatus = 1
          /\ cl'.results[Len(cl'.results)].rows = ShowTable

\* C20: when a send or a receive of a framed message fails in a client test,
\* in the request or in the test's own messages, the test function returns
\* and the process goes on: client() sets the exit status to 1, place_show
\* prints the rows gathered, and do_args goes on with the arguments left.
C20_FailureReturns == [][C20_Step]_vars

-----------------------------------------------------------------------------
(* The wire codec: enc_int and dec_int, and the encoders and decoders of   *)
(* REQ, STAT and USTAT built on them.  A 64-bit value is held as its eight *)
(* bytes, lowest first, so that a shift by 8 moves the bytes by one place. *)

\* The bytes of an int64_t.
WordLen == 8
WordZero == [i \in 1..WordLen |-> 0]

\* The word of a number below 2^31.
RECURSIVE WordDigits(_, _)
WordDigits(k, n) ==
    IF n = 0 THEN <<>> ELSE <<k % 256>> \o WordDigits(k \div 256, n - 1)
WordOf(k) == WordDigits(k, WordLen)

\* l >>= 8 on an int64_t: the sign fills the top byte.
Sar8(l) ==
    [i \in 1..WordLen |->
       IF i < WordLen THEN l[i + 1] ELSE IF l[WordLen] >= 128 THEN 255 ELSE 0]

\* (l << 8) | b on a uint64_t, b a byte.
Shl8Or(l, b) == [i \in 1..WordLen |-> IF i = 1 THEN b ELSE l[i - 1]]

\* A value stored into a field of n bytes, and read from it as unsigned.
Trunc(l, n) == [i \in 1..WordLen |-> IF i <= n THEN l[i] ELSE 0]

\* l after k passes of the loop of enc_int.
RECURSIVE SarN(_, _)
SarN(l, k) == IF k = 0 THEN l ELSE Sar8(SarN(l, k - 1))

\* enc_int: n times, the low byte of l goes to *EncodePtr++ and l is
\* shifted.  e is the buffer written so far with EncodePtr as an offset.
enc_int(e, l, n) ==
    [buf |-> e.buf \o [i \in 1..n |-> SarN(l, i - 1)[1]], ptr |-> e.ptr + n]

\* dec_int: p starts n past DecodePtr and steps down; the loop with the
\* pointer stepping up instead.
RECURSIVE dec_loop_up(_, _, _, _)
dec_loop_up(buf, p, l, n) ==
    IF n = 0 THEN l
    ELSE dec_loop_up(buf, p, Shl8Or(l, buf[p - n + 1]), n - 1)
RECURSIVE dec_loop(_, _, _, _)
dec_loop(buf, p, l, n) ==
    IF n = 0 THEN l ELSE dec_loop(buf, p - 1, Shl8Or(l, buf[p]), n - 1)
dec_int(d, n) ==
    [l |-> dec_loop(d.buf, d.ptr + n, WordZero, n), ptr |-> d.ptr + n]

\* The values given to enc_int, 0x01020304 among them, the numbers of bytes
\* asked for, and what the buffer holds before the cursor.
ByteSamples == {0, 1, 255}
Words == [1..WordLen -> ByteSamples] \cup {WordOf(16909060)}
Before == {<<>>, <<9>>}

\* A value is handed to its encoder; n is the number of bytes asked of
\* enc_int.
CodecCall(kind, val, n, before, zero) ==
    [pc |-> "in", kind |-> kind, val |-> val, n |-> n, before |-> before, buf |-> before,
     EncodePtr |-> Len(before), DecodePtr |-> Len(before), out |-> zero]

InitBase ==
    /\ now = 0
    /\ Req = [p \in Sides |-> ReqZero]
    /\ chan = [p \in Sides |-> <<>>]
    /\ eof = [p \in Sides |-> FALSE]
    /\ io = [p \in Sides |-> NoIo]
    /\ AppBase

\* The length of the strings of a REQ, and the tick counters of a STAT.
StrBytes == 2
T_N == 9

\* The integer fields of a REQ as enc_req and as dec_req go through them,
\* and dec_req with two of them exchanged.
ReqEncOrder ==
    <<"ver_maj", "ver_min", "ver_inc", "req_index", "flip", "access_recv",
      "affinity", "poll_mode", "port", "rd_atomic", "timeout", "msg_size",
      "mtu_size", "no_msgs", "sock_buf_size", "time">>
ReqDecSwapped ==
    <<"ver_maj", "ver_min", "ver_inc", "req_index", "flip", "access_recv",
      "affinity", "poll_mode", "port", "rd_atomic", "timeout", "mtu_size",
      "msg_size", "no_msgs", "sock_buf_size", "time">>
ReqDecOrder ==
    <<"ver_maj", "ver_min", "ver_inc", "req_index", "flip", "access_recv",
      "affinity", "poll_mode", "port", "rd_atomic", "timeout", "msg_size",
      "mtu_size", "no_msgs", "sock_buf_size", "time">>
ReqInts == {ReqEncOrder[i] : i \in DOMAIN ReqEncOrder}

\* sizeof of a field: 16 bits for the version and the test, 32 bits for the
\* parameters and the counts of a STAT, 64 bits for the ticks and the
\* counters.
SizeOf(struct, field) ==
    IF struct = "REQ"
    THEN IF field \in {"ver_maj", "ver_min", "ver_inc", "req_index"}
         THEN 2 ELSE 4
    ELSE IF struct = "STAT" /\ field \in {"no_cpus", "no_ticks", "max_cqes"}
    THEN 4 ELSE 8

\* enc_str and dec_str: memcpy of n bytes.
enc_str(e, s, n) == [buf |-> e.buf \o SubSeq(s, 1, n), ptr |-> e.ptr + n]
dec_str(d, n) ==
    [s |-> SubSeq(d.buf, d.ptr + 1, d.ptr + n), ptr |-> d.ptr + n]

\* A run of enc_int over the fields named, and of assignments from dec_int.
RECURSIVE enc_fields(_, _, _, _)
enc_fields(e, host, struct, fields) ==
    IF fields = <<>> THEN e
    ELSE enc_fields(enc_int(e, host[Head(fields)],
                            SizeOf(struct, Head(fields))),
                    host, struct, Tail(fields))
RECURSIVE dec_fields(_, _, _, _)
dec_fields(d, host, struct, fields) ==
    IF fields = <<>> THEN [host |-> host, buf |-> d.buf, ptr |-> d.ptr]
    ELSE LET f == Head(fields)
             r == dec_int(d, SizeOf(struct, f))
         IN  dec_fields([buf |-> d.buf, ptr |-> r.ptr],
                        [host EXCEPT ![f] = Trunc(r.l, SizeOf(struct, f))],
                        struct, Tail(fields))

enc_req(e, host) ==
    enc_str(enc_fields(e, host, "REQ", ReqEncOrder), host.id, StrBytes)
dec_req(d, host) ==
    LET r == dec_fields(d, host, "REQ", ReqDecOrder)
        s == dec_str(r, StrBytes)
    IN  [host |-> [r.host EXCEPT !.id = s.s], buf |-> d.buf, ptr |-> s.ptr]

UstatOrder == <<"no_bytes", "no_msgs", "no_errs">>
enc_ustat(e, host) == enc_fields(e, host, "USTAT", UstatOrder)
dec_ustat(d, host) == dec_fields(d, host, "USTAT", UstatOrder)

\* The loops over time_s and time_e.
RECURSIVE enc_ticks(_, _, _)
enc_ticks(e, ticks, i) ==
    IF i > T_N THEN e
    ELSE enc_ticks(enc_int(e, ticks[i], SizeOf("STAT", "time_s")), ticks, i + 1)
RECURSIVE dec_ticks(_, _, _)
dec_ticks(d, ticks, i) ==
    IF i > T_N THEN [ticks |-> ticks, buf |-> d.buf, ptr |-> d.ptr]
    ELSE LET r == dec_int(d, SizeOf("STAT", "time_s"))
         IN  dec_ticks([buf |-> d.buf, ptr |-> r.ptr],
                       [ticks EXCEPT ![i] = Trunc(r.l, SizeOf("STAT", "time_s"))],
                       i + 1)

StatHead == <<"no_cpus", "no_ticks", "max_cqes">>
enc_stat(e, host) ==
    LET a == enc_fields(e, host, "STAT", StatHead)
        b == enc_ticks(a, host.time_s, 1)
        c == enc_ticks(b, host.time_e, 1)
    IN  enc_ustat(enc_ustat(enc_ustat(enc_ustat(c, host.s), host.r),
                            host.rem_s), host.rem_r)
dec_stat(d, host) ==
    LET a == dec_fields(d, host, "STAT", StatHead)
        b == dec_ticks(a, host.time_s, 1)
        c == dec_ticks(b, host.time_e, 1)
        s == dec_ustat(c, host.s)
        r == dec_ustat(s, host.r)
        rem_s == dec_ustat(r, host.rem_s)
        rem_r == dec_ustat(rem_s, host.rem_r)
    IN  [host |-> [a.host EXCEPT !.time_s = b.ticks, !.time_e = c.ticks,
                                 !.s = s.host, !.r = r.host,
                                 !.rem_s = rem_s.host, !.rem_r = rem_r.host],
         buf |-> d.buf, ptr |-> rem_r.ptr]

\* The bytes a message of each kind takes.
RECURSIVE SumSizes(_, _)
SumSizes(struct, fields) ==
    IF fields = <<>> THEN 0
    ELSE SizeOf(struct, Head(fields)) + SumSizes(struct, Tail(fields))
ReqBytes == SumSizes("REQ", ReqEncOrder) + StrBytes
UstatBytes == SumSizes("USTAT", UstatOrder)
StatBytes ==
    SumSizes("STAT", StatHead) + 2 * T_N * SizeOf("STAT", "time_s") + 4 * UstatBytes

\* The values handed to the encoders: every field holds a number of its own,
\* and one field, or none, holds the largest value of its width.
MaxSeed == 1
Ones(n) == [i \in 1..WordLen |-> IF i <= n THEN 255 ELSE 0]
PosIn(field) == CHOOSE i \in DOMAIN ReqEncOrder : ReqEncOrder[i] = field
ReqHost(hot, k) ==
    [f \in ReqInts \cup {"id"} |->
       IF f = "id"
       THEN [i \in 1..StrBytes |-> IF hot = "id" THEN 255 ELSE (i + k) % 256]
       ELSE IF f = hot THEN Ones(SizeOf("REQ", f))
       ELSE WordOf(PosIn(f) + k)]
ReqHosts == {ReqHost(hot, k) : hot \in ReqInts \cup {"id"}, k \in 0..MaxSeed}
ReqHostZero ==
    [f \in ReqInts \cup {"id"} |->
       IF f = "id" THEN [i \in 1..StrBytes |-> 0] ELSE WordZero]

UstatHost(base, hot) ==
    [no_bytes |-> IF hot = "no_bytes" THEN Ones(WordLen) ELSE WordOf(base + 1),
     no_msgs |-> IF hot = "no_msgs" THEN Ones(WordLen) ELSE WordOf(base + 2),
     no_errs |-> IF hot = "no_errs" THEN Ones(WordLen) ELSE WordOf(base + 3)]
UstatHots == {"none", "no_bytes", "no_msgs", "no_errs"}
UstatHosts == {UstatHost(k, hot) : k \in 0..MaxSeed, hot \in UstatHots}
UstatHostZero ==
    [no_bytes |-> WordZero, no_msgs |-> WordZero, no_errs |-> WordZero]

StatHots ==
    {"none", "no_cpus", "no_ticks", "max_cqes", "time_s", "time_e",
     "s", "r", "rem_s", "rem_r"}
StatHost(hot, sub, k) ==
    [no_cpus |-> IF hot = "no_cpus" THEN Ones(4) ELSE WordOf(k + 1),
     no_ticks |-> IF hot = "no_ticks" THEN Ones(4) ELSE WordOf(k + 2),
     max_cqes |-> IF hot = "max_cqes" THEN Ones(4) ELSE WordOf(k + 3),
     time_s |-> [i \in 1..T_N |->
                   IF hot = "time_s" THEN Ones(WordLen) ELSE WordOf(k + 10 + i)],
     time_e |-> [i \in 1..T_N |->
                   IF hot = "time_e" THEN Ones(WordLen) ELSE WordOf(k + 20 + i)],
     s |-> UstatHost(k + 30, IF hot = "s" THEN sub ELSE "none"),
     r |-> UstatHost(k + 40, IF hot = "r" THEN sub ELSE "none"),
     rem_s |-> UstatHost(k + 50, IF hot = "rem_s" THEN sub ELSE "none"),
     rem_r |-> UstatHost(k + 60, IF hot = "rem_r" THEN sub ELSE "none")]
StatHosts ==
    {StatHost(hot, sub, k) :
        hot \in StatHots, sub \in UstatHots \ {"none"}, k \in 0..MaxSeed}
StatHostZero ==
    [no_cpus |-> WordZero, no_ticks |-> WordZero, max_cqes |-> WordZero,
     time_s |-> [i \in 1..T_N |-> WordZero],
     time_e |-> [i \in 1..T_N |-> WordZero],
     s |-> UstatHostZero, r |-> UstatHostZero,
     rem_s |-> UstatHostZero, rem_r |-> UstatHostZero]

\* enc_init and the encoder of the kind of value at hand.
CodecEnc(kind, e) ==
    /\ codec.pc = "in" /\ codec.kind = kind
    /\ codec' = [codec EXCEPT !.pc = "enc", !.buf = e.buf,
                              !.EncodePtr = e.ptr]
    /\ UNCHANGED <<now, Req, chan, eof, io, proc, srvv, tm, cl, par, view, cmd>>

\* dec_init on the same place and the decoder of that kind.
CodecDec(kind, d) ==
    /\ codec.pc = "enc" /\ codec.kind = kind
    /\ codec' = [codec EXCEPT !.pc = "dec", !.out = d.host,
                              !.DecodePtr = d.ptr]
    /\ UNCHANGED <<now, Req, chan, eof, io, proc, srvv, tm, cl, par, view, cmd>>

CodecAt(ptr) == [buf |-> codec.buf, ptr |-> ptr]

CodecEncInt ==
    CodecEnc("int", enc_int(CodecAt(codec.EncodePtr), codec.val, codec.n))
CodecDecInt ==
    LET d == dec_int(CodecAt(codec.DecodePtr), codec.n)
    IN  CodecDec("int", [host |-> d.l, ptr |-> d.ptr])

CodecEncReq == CodecEnc("req", enc_req(CodecAt(codec.EncodePtr), codec.val))
CodecDecReq == CodecDec("req", dec_req(CodecAt(codec.DecodePtr), codec.out))
CodecEncStat == CodecEnc("stat", enc_stat(CodecAt(codec.EncodePtr), codec.val))
CodecDecStat == CodecDec("stat", dec_stat(CodecAt(codec.DecodePtr), codec.out))
CodecEncUstat ==
    CodecEnc("ustat", enc_ustat(CodecAt(codec.EncodePtr), codec.val))
CodecDecUstat ==
    CodecDec("ustat", dec_ustat(CodecAt(codec.DecodePtr), codec.out))

InitWire ==
    /\ InitBase
    /\ par = NoPar /\ view = NoView /\ cmd = NoCmd
    /\ \E before \in Before :
          \/ \E l \in Words, n \in 1..WordLen :
                codec = CodecCall("int", l, n, before, WordZero)
          \/ \E host \in ReqHosts :
                codec = CodecCall("req", host, ReqBytes, before, ReqHostZero)
          \/ \E host \in StatHosts :
                codec = CodecCall("stat", host, StatBytes, before, StatHostZero)
          \/ \E host \in UstatHosts :
                codec = CodecCall("ustat", host, UstatBytes, before,
                                  UstatHostZero)

NextWire ==
    \/ CodecEncInt
    \/ CodecDecInt
    \/ CodecEncReq
    \/ CodecDecReq
    \/ CodecEncStat
    \/ CodecDecStat
    \/ CodecEncUstat
    \/ CodecDecUstat

SpecWire == InitWire /\ [][NextWire]_vars

\* A value of the kind named has been encoded, or encoded and decoded.
Encoded(kind) ==
    codec.pc \in {"enc", "dec"} /\ codec.kind = kind
Decoded(kind) == codec.pc = "dec" /\ codec.kind = kind

C22_IntCodec ==
    /\ Encoded("int") =>
          /\ codec.buf = codec.before \o [i \in 1..codec.n |-> codec.val[i]]
          /\ codec.EncodePtr = Len(codec.before) + codec.n
          /\ codec.val = WordOf(16909060) /\ codec.n = 4 =>
                codec.buf = codec.before \o <<4, 3, 2, 1>>
    /\ Decoded("int") =>
          /\ codec.out = Trunc(codec.val, codec.n)
          /\ codec.DecodePtr = Len(codec.before) + codec.n

\* 0x01020304 has gone through enc_int and dec_int with n = 4, and a
\* negative value with n = 8.
C22_Witness ==
    /\ Decoded("int")
    /\ \/ /\ codec.val = WordOf(16909060) /\ codec.n = 4
          /\ codec.buf = codec.before \o <<4, 3, 2, 1>>
          /\ codec.out = codec.val
       \/ /\ codec.val = Ones(WordLen) /\ codec.n = WordLen
          /\ codec.out = codec.val

-----------------------------------------------------------------------------
(* The combination of the statistics in calc_results.                      *)

\* The counters of l are those of a plus those of b, field by field.
IsSum(l, a, b) ==
    /\ l.no_bytes = a.no_bytes + b.no_bytes
    /\ l.no_msgs = a.no_msgs + b.no_msgs
    /\ l.no_errs = a.no_errs + b.no_errs

\* The step is calc_results on the client, with Successful set.
CalcStep ==
    /\ xr["client"].pc = "done" /\ xr'["client"].pc = "shown"
    /\ Successful["client"] # 0

C23_Step ==
    CalcStep =>
       /\ IsSum(LStat'["client"].s, LStat["client"].s, RStat.rem_s)
       /\ IsSum(LStat'["client"].r, LStat["client"].r, RStat.rem_r)
       /\ IsSum(RStat'.s, RStat.s, LStat["client"].rem_s)
       /\ IsSum(RStat'.r, RStat.r, LStat["client"].rem_r)
       /\ LStat'["client"].rem_s = LStat["client"].rem_s
       /\ LStat'["client"].rem_r = LStat["client"].rem_r
       /\ RStat'.rem_s = RStat.rem_s
       /\ RStat'.rem_r = RStat.rem_r

\* C23: calc_results on a successful run adds to LStat.s and LStat.r what
\* RStat holds in rem_s and rem_r, and to RStat.s and RStat.r what LStat
\* holds in rem_s and rem_r, field by field, each from the values before
\* the combination; rem_s and rem_r stay as they were.
C23_Combined == [][C23_Step]_vars

\* The results of a run are combined in which the client counted what the
\* server sent: the server's s has grown by the client's rem_s.
C23_Witness ==
    /\ xr["client"].pc = "shown" /\ Successful["client"] # 0
    /\ LStat["client"].rem_s = UstatOne
    /\ RStat.s = AddUstat(UstatOne, UstatOne)
    /\ LStat["client"].r = UstatOne


-----------------------------------------------------------------------------
(* do_args: the command line from its first token, the whole of Options    *)
(* and of ParInfo, the argument parsers and the selection of the mode.     *)

\* Tokens on a command line.
MaxTokens == 2

\* ParInfo in the order of the table; the row at position 0 is P_NULL.
ParInfoOrder ==
    <<P_NULL, "L_ACCESS_RECV", "R_ACCESS_RECV", "L_AFFINITY", "R_AFFINITY",
      "L_FLIP", "R_FLIP", "L_ID", "R_ID", "L_MSG_SIZE", "R_MSG_SIZE",
      "L_MTU_SIZE", "R_MTU_SIZE", "L_NO_MSGS", "R_NO_MSGS", "L_POLL_MODE",
      "R_POLL_MODE", "L_PORT", "R_PORT", "L_RATE", "R_RATE", "L_RD_ATOMIC",
      "R_RD_ATOMIC", "L_SOCK_BUF_SIZE", "R_SOCK_BUF_SIZE", "L_TIME", "R_TIME",
      "L_TIMEOUT", "R_TIMEOUT">>
ParIndices == {ParInfoOrder[i] : i \in DOMAIN ParInfoOrder}

\* The parameters whose slot is a string vector (type 'p').
StrSlots == {"L_ID", "R_ID", "L_RATE", "R_RATE"}

\* ParInfo as the program starts; a 32-bit slot holds four bytes.
ParInfoZero ==
    [index \in ParIndices |->
       [name |-> NoName, set |-> FALSE, used |-> FALSE, inuse |-> FALSE,
        val |-> IF index \in StrSlots THEN "" ELSE WordZero]]

OptionTable ==
    <<[name |-> "--access_recv", server_valid |-> 0, func |-> "opt_long",
      arg1 |-> "L_ACCESS_RECV", arg2 |-> "R_ACCESS_RECV"],
     [name |-> "-Ar", server_valid |-> 0, func |-> "opt_long",
      arg1 |-> "L_ACCESS_RECV", arg2 |-> "R_ACCESS_RECV"],
     [name |-> "--affinity", server_valid |-> 0, func |-> "opt_long",
      arg1 |-> "L_AFFINITY", arg2 |-> "R_AFFINITY"],
     [name |-> "-a", server_valid |-> 0, func |-> "opt_long",
      arg1 |-> "L_AFFINITY", arg2 |-> "R_AFFINITY"],
     [name |-> "--loc_affinity", server_valid |-> 0, func |-> "opt_long",
      arg1 |-> "L_AFFINITY", arg2 |-> P_NULL],
     [name |-> "-la", server_valid |-> 0, func |-> "opt_long",
      arg1 |-> "L_AFFINITY", arg2 |-> P_NULL],
     [name |-> "--rem_affinity", server_valid |-> 0, func |-> "opt_long",
      arg1 |-> "R_AFFINITY", arg2 |-> P_NULL],
     [name |-> "-ra", server_valid |-> 0, func |-> "opt_long",
      arg1 |-> "R_AFFINITY", arg2 |-> P_NULL],
     [name |-> "--debug", server_valid |-> 1, func |-> "opt_misc",
      arg1 |-> "D", arg2 |-> ""],
     [name |-> "-D", server_valid |-> 1, func |-> "opt_misc",
      arg1 |-> "D", arg2 |-> ""],
     [name |-> "--flip", server_valid |-> 0, func |-> "opt_long",
      arg1 |-> "L_FLIP", arg2 |-> "R_FLIP"],
     [name |-> "-f", server_valid |-> 0, func |-> "opt_long",
      arg1 |-> "L_FLIP", arg2 |-> "R_FLIP"],
     [name |-> "--help", server_valid |-> 0, func |-> "opt_help",
      arg1 |-> "", arg2 |-> ""],
     [name |-> "-h", server_valid |-> 0, func |-> "opt_help",
      arg1 |-> "", arg2 |-> ""],
     [name |-> "--host", server_valid |-> 0, func |-> "opt_misc",
      arg1 |-> "H", arg2 |-> ""],
     [name |-> "-H", server_valid |-> 0, func |-> "opt_misc",
      arg1 |-> "H", arg2 |-> ""],
     [name |-> "--id", server_valid |-> 0, func |-> "opt_strn",
      arg1 |-> "L_ID", arg2 |-> "R_ID"],
     [name |-> "-i", server_valid |-> 0, func |-> "opt_strn",
      arg1 |-> "L_ID", arg2 |-> "R_ID"],
     [name |-> "--loc_id", server_valid |-> 0, func |-> "opt_strn",
      arg1 |-> "L_ID", arg2 |-> P_NULL],
     [name |-> "-li", server_valid |-> 0, func |-> "opt_strn",
      arg1 |-> "L_ID", arg2 |-> P_NULL],
     [name |-> "--rem_id", server_valid |-> 0, func |-> "opt_strn",
      arg1 |-> "R_ID", arg2 |-> P_NULL],
     [name |-> "-ri", server_valid |-> 0, func |-> "opt_strn",
      arg1 |-> "R_ID", arg2 |-> P_NULL],
     [name |-> "--listen_port", server_valid |-> 1, func |-> "opt_misc",
      arg1 |-> "l", arg2 |-> "p"],
     [name |-> "-lp", server_valid |-> 1, func |-> "opt_misc",
      arg1 |-> "l", arg2 |-> "p"],
     [name |-> "--msg_size", server_valid |-> 0, func |-> "opt_size",
      arg1 |-> "L_MSG_SIZE", arg2 |-> "R_MSG_SIZE"],
     [name |-> "-m", server_valid |-> 0, func |-> "opt_size",
      arg1 |-> "L_MSG_SIZE", arg2 |-> "R_MSG_SIZE"],
     [name |-> "--mtu_size", server_valid |-> 0, func |-> "opt_size",
      arg1 |-> "L_MTU_SIZE", arg2 |-> "R_MTU_SIZE"],
     [name |-> "-M", server_valid |-> 0, func |-> "opt_size",
      arg1 |-> "L_MTU_SIZE", arg2 |-> "R_MTU_SIZE"],
     [name |-> "--no_msgs", server_valid |-> 0, func |-> "opt_long",
      arg1 |-> "L_NO_MSGS", arg2 |-> "R_NO_MSGS"],
     [name |-> "-n", server_valid |-> 0, func |-> "opt_long",
      arg1 |-> "L_NO_MSGS", arg2 |-> "R_NO_MSGS"],
     [name |-> "--poll", server_valid |-> 0, func |-> "opt_long",
      arg1 |-> "L_POLL_MODE", arg2 |-> "R_POLL_MODE"],
     [name |-> "-P", server_valid |-> 0, func |-> "opt_long",
      arg1 |-> "L_POLL_MODE", arg2 |-> "R_POLL_MODE"],
     [name |-> "--loc_poll", server_valid |-> 0, func |-> "opt_long",
      arg1 |-> "L_POLL_MODE", arg2 |-> P_NULL],
     [name |-> "-lP", server_valid |-> 0, func |-> "opt_long",
      arg1 |-> "L_POLL_MODE", arg2 |-> P_NULL],
     [name |-> "--rem_poll", server_valid |-> 0, func |-> "opt_long",
      arg1 |-> "R_POLL_MODE", arg2 |-> P_NULL],
     [name |-> "-rP", server_valid |-> 0, func |-> "opt_long",
      arg1 |-> "R_POLL_MODE", arg2 |-> P_NULL],
     [name |-> "--port", server_valid |-> 0, func |-> "opt_long",
      arg1 |-> "L_PORT", arg2 |-> "R_PORT"],
     [name |-> "-p", server_valid |-> 0, func |-> "opt_long",
      arg1 |-> "L_PORT", arg2 |-> "R_PORT"],
     [name |-> "--precision", server_valid |-> 0, func |-> "opt_misc",
      arg1 |-> "e", arg2 |-> ""],
     [name |-> "-e", server_valid |-> 0, func |-> "opt_misc",
      arg1 |-> "e", arg2 |-> ""],
     [name |-> "--rate", server_valid |-> 0, func |-> "opt_strn",
      arg1 |-> "L_RATE", arg2 |-> "R_RATE"],
     [name |-> "-r", server_valid |-> 0, func |-> "opt_strn",
      arg1 |-> "L_RATE", arg2 |-> "R_RATE"],
     [name |-> "--loc_rate", server_valid |-> 0, func |-> "opt_strn",
      arg1 |-> "L_RATE", arg2 |-> P_NULL],
     [name |-> "-lr", server_valid |-> 0, func |-> "opt_strn",
      arg1 |-> "L_RATE", arg2 |-> P_NULL],
     [name |-> "--rem_rate", server_valid |-> 0, func |-> "opt_strn",
      arg1 |-> "R_RATE", arg2 |-> P_NULL],
     [name |-> "-rr", server_valid |-> 0, func |-> "opt_strn",
      arg1 |-> "R_RATE", arg2 |-> P_NULL],
     [name |-> "-rd_atomic", server_valid |-> 0, func |-> "opt_long",
      arg1 |-> "L_RD_ATOMIC", arg2 |-> "R_RD_ATOMIC"],
     [name |-> "-R", server_valid |-> 0, func |-> "opt_long",
      arg1 |-> "L_RD_ATOMIC", arg2 |-> "R_RD_ATOMIC"],
     [name |-> "--loc_rd_atomic", server_valid |-> 0, func |-> "opt_long",
      arg1 |-> "L_RD_ATOMIC", arg2 |-> P_NULL],
     [name |-> "-lR", server_valid |-> 0, func |-> "opt_long",
      arg1 |-> "L_RD_ATOMIC", arg2 |-> P_NULL],
     [name |-> "--rem_rd_atomic", server_valid |-> 0, func |-> "opt_long",
      arg1 |-> "R_RD_ATOMIC", arg2 |-> P_NULL],
     [name |-> "-rR", server_valid |-> 0, func |-> "opt_long",
      arg1 |-> "R_RD_ATOMIC", arg2 |-> P_NULL],
     [name |-> "--sock_buf_size", server_valid |-> 0, func |-> "opt_size",
      arg1 |-> "L_SOCK_BUF_SIZE", arg2 |-> "R_SOCK_BUF_SIZE"],
     [name |-> "-S", server_valid |-> 0, func |-> "opt_size",
      arg1 |-> "L_SOCK_BUF_SIZE", arg2 |-> "R_SOCK_BUF_SIZE"],
     [name |-> "--loc_sock_buf_size", server_valid |-> 0, func |-> "opt_size",
      arg1 |-> "L_SOCK_BUF_SIZE", arg2 |-> P_NULL],
     [name |-> "-lS", server_valid |-> 0, func |-> "opt_size",
      arg1 |-> "L_SOCK_BUF_SIZE", arg2 |-> P_NULL],
     [name |-> "--rem_sock_buf_size", server_valid |-> 0, func |-> "opt_size",
      arg1 |-> "R_SOCK_BUF_SIZE", arg2 |-> P_NULL],
     [name |-> "-rS", server_valid |-> 0, func |-> "opt_size",
      arg1 |-> "R_SOCK_BUF_SIZE", arg2 |-> P_NULL],
     [name |-> "--time", server_valid |-> 0, func |-> "opt_time",
      arg1 |-> "L_TIME", arg2 |-> "R_TIME"],
     [name |-> "-t", server_valid |-> 0, func |-> "opt_time",
      arg1 |-> "L_TIME", arg2 |-> "R_TIME"],
     [name |-> "--timeout", server_valid |-> 0, func |-> "opt_time",
      arg1 |-> "L_TIMEOUT", arg2 |-> "R_TIMEOUT"],
     [name |-> "-T", server_valid |-> 0, func |-> "opt_time",
      arg1 |-> "L_TIMEOUT", arg2 |-> "R_TIMEOUT"],
     [name |-> "--loc_timeout", server_valid |-> 0, func |-> "opt_time",
      arg1 |-> "L_TIMEOUT", arg2 |-> P_NULL],
     [name |-> "-lT", server_valid |-> 0, func |-> "opt_time",
      arg1 |-> "L_TIMEOUT", arg2 |-> P_NULL],
     [name |-> "--rem_timeout", server_valid |-> 0, func |-> "opt_time",
      arg1 |-> "R_TIMEOUT", arg2 |-> P_NULL],
     [name |-> "-rT", server_valid |-> 0, func |-> "opt_time",
      arg1 |-> "R_TIMEOUT", arg2 |-> P_NULL],
     [name |-> "--server_timeout", server_valid |-> 0, func |-> "opt_misc",
      arg1 |-> "s", arg2 |-> "t"],
     [name |-> "-st", server_valid |-> 0, func |-> "opt_misc",
      arg1 |-> "s", arg2 |-> "t"],
     [name |-> "--unify_nodes", server_valid |-> 0, func |-> "opt_misc",
      arg1 |-> "U", arg2 |-> ""],
     [name |-> "-U", server_valid |-> 0, func |-> "opt_misc",
      arg1 |-> "U", arg2 |-> ""],
     [name |-> "--unify_units", server_valid |-> 0, func |-> "opt_misc",
      arg1 |-> "u", arg2 |-> ""],
     [name |-> "-u", server_valid |-> 0, func |-> "opt_misc",
      arg1 |-> "u", arg2 |-> ""],
     [name |-> "--verbose", server_valid |-> 0, func |-> "opt_misc",
      arg1 |-> "v", arg2 |-> ""],
     [name |-> "-v", server_valid |-> 0, func |-> "opt_misc",
      arg1 |-> "v", arg2 |-> ""],
     [name |-> "--verbose_conf", server_valid |-> 0, func |-> "opt_misc",
      arg1 |-> "v", arg2 |-> "c"],
     [name |-> "-vc", server_valid |-> 0, func |-> "opt_misc",
      arg1 |-> "v", arg2 |-> "c"],
     [name |-> "--verbose_stat", server_valid |-> 0, func |-> "opt_misc",
      arg1 |-> "v", arg2 |-> "s"],
     [name |-> "-vs", server_valid |-> 0, func |-> "opt_misc",
      arg1 |-> "v", arg2 |-> "s"],
     [name |-> "--verbose_time", server_valid |-> 0, func |-> "opt_misc",
      arg1 |-> "v", arg2 |-> "t"],
     [name |-> "-vt", server_valid |-> 0, func |-> "opt_misc",
      arg1 |-> "v", arg2 |-> "t"],
     [name |-> "--verbose_used", server_valid |-> 0, func |-> "opt_misc",
      arg1 |-> "v", arg2 |-> "u"],
     [name |-> "-vu", server_valid |-> 0, func |-> "opt_misc",
      arg1 |-> "v", arg2 |-> "u"],
     [name |-> "--verbose_more", server_valid |-> 0, func |-> "opt_misc",
      arg1 |-> "v", arg2 |-> "v"],
     [name |-> "-vv", server_valid |-> 0, func |-> "opt_misc",
      arg1 |-> "v", arg2 |-> "v"],
     [name |-> "--verbose_more_conf", server_valid |-> 0, func |-> "opt_misc",
      arg1 |-> "v", arg2 |-> "c"],
     [name |-> "-vC", server_valid |-> 0, func |-> "opt_misc",
      arg1 |-> "v", arg2 |-> "C"],
     [name |-> "--verbose_more_stat", server_valid |-> 0, func |-> "opt_misc",
      arg1 |-> "v", arg2 |-> "s"],
     [name |-> "-vS", server_valid |-> 0, func |-> "opt_misc",
      arg1 |-> "v", arg2 |-> "S"],
     [name |-> "--verbose_more_time", server_valid |-> 0, func |-> "opt_misc",
      arg1 |-> "v", arg2 |-> "t"],
     [name |-> "-vT", server_valid |-> 0, func |-> "opt_misc",
      arg1 |-> "v", arg2 |-> "T"],
     [name |-> "--verbose_more_used", server_valid |-> 0, func |-> "opt_misc",
      arg1 |-> "v", arg2 |-> "u"],
     [name |-> "-vU", server_valid |-> 0, func |-> "opt_misc",
      arg1 |-> "v", arg2 |-> "U"],
     [name |-> "--version", server_valid |-> 0, func |-> "opt_vers",
      arg1 |-> "", arg2 |-> ""],
     [name |-> "-V", server_valid |-> 0, func |-> "opt_vers",
      arg1 |-> "", arg2 |-> ""],
     [name |-> "--wait", server_valid |-> 0, func |-> "opt_misc",
      arg1 |-> "W", arg2 |-> ""],
     [name |-> "-W", server_valid |-> 0, func |-> "opt_misc",
      arg1 |-> "W", arg2 |-> ""]>>

\* No row of Options: the null pointer find_option returns.
NoOption == [name |-> NoName]

\* find_option: the first row of the table with the name.
find_option(name) ==
    IF \E i \in DOMAIN OptionTable : OptionTable[i].name = name
    THEN OptionTable[CHOOSE i \in DOMAIN OptionTable :
                        /\ OptionTable[i].name = name
                        /\ \A j \in 1..(i - 1) : OptionTable[j].name # name]
    ELSE NoOption

\* find_test: the names of Tests followed here.
TestNames == {"conf", "quit", "rds_bw"}
find_test(name) == name \in TestNames

\* l * m + c on a long held as bytes, lowest first; what is carried out of
\* the highest byte is lost.
RECURSIVE MulAdd(_, _, _)
MulAdd(l, m, c) ==
    IF Len(l) = 0 THEN <<>>
    ELSE <<(l[1] * m + c) % 256>> \o MulAdd(Tail(l), m, (l[1] * m + c) \div 256)

\* strtol and strtold on a string of decimal digits.
RECURSIVE strtol(_, _)
strtol(digits, l) ==
    IF digits = <<>> THEN l
    ELSE strtol(Tail(digits), MulAdd(l, 10, Head(digits)))

\* The conversion of a long to the uint32_t parameter of setp_u32.
U32Whole(l) == l
U32(l) == Trunc(l, 4)

\* An argument of an option: the token that follows it, if there is one.
NoToken == [kind |-> "none", text |-> "", neg |-> FALSE, digits |-> <<>>,
            suffix |-> "", long |-> FALSE]
Parsed(l) == [ok |-> TRUE, l |-> l, msg |-> ""]
Refused(msg) == [ok |-> FALSE, l |-> WordZero, msg |-> msg]

\* arg_long: the whole token must be a number, and not a negative one.
arg_long(tok) ==
    IF tok = NoToken THEN Refused("Missing argument")
    ELSE IF tok.kind # "num" \/ tok.suffix # "" THEN Refused("Bad argument")
    ELSE IF tok.neg THEN Refused("requires a non-negative number")
    ELSE Parsed(strtol(tok.digits, WordZero))

\* The multiplier a suffix of a size stands for, as factors below 2^11.
SizeFactors(suffix) ==
    IF suffix \in {"kb", "k"} THEN <<1000>>
    ELSE IF suffix \in {"mb", "m"} THEN <<1000, 1000>>
    ELSE IF suffix \in {"gb", "g"} THEN <<1000, 1000, 1000>>
    ELSE IF suffix \in {"kib", "K"} THEN <<1024>>
    ELSE IF suffix \in {"mib", "M"} THEN <<1024, 1024>>
    ELSE IF suffix \in {"gib", "G"} THEN <<1024, 1024, 1024>>
    ELSE <<>>
TimeFactors(suffix) ==
    IF suffix \in {"s", "S"} THEN <<1>>
    ELSE IF suffix \in {"m", "M"} THEN <<60>>
    ELSE IF suffix \in {"h", "H"} THEN <<60, 60>>
    ELSE IF suffix \in {"d", "D"} THEN <<60, 60, 24>>
    ELSE <<>>
RECURSIVE Times(_, _)
Times(l, factors) ==
    IF factors = <<>> THEN l ELSE Times(MulAdd(l, Head(factors), 0), Tail(factors))

\* arg_size: a number that is not negative, alone or before a unit.  A token
\* that is no number reads as 0 with the whole of it as the unit.
arg_size(tok) ==
    IF tok = NoToken THEN Refused("Missing argument")
    ELSE IF tok.kind = "num" /\ tok.neg
    THEN Refused("requires a non-negative number")
    ELSE LET d == IF tok.kind = "num" THEN strtol(tok.digits, WordZero)
                  ELSE WordZero
             p == IF tok.kind = "num" THEN tok.suffix ELSE tok.text
         IN  IF p = "" THEN Parsed(d)
             ELSE IF SizeFactors(p) # <<>> THEN Parsed(Times(d, SizeFactors(p)))
             ELSE Refused("Bad argument")

\* arg_time: the same with a unit of one letter.
arg_time(tok) ==
    IF tok = NoToken THEN Refused("Missing argument")
    ELSE IF tok.kind = "num" /\ tok.neg
    THEN Refused("requires a non-negative number")
    ELSE LET d == IF tok.kind = "num" THEN strtol(tok.digits, WordZero)
                  ELSE WordZero
             p == IF tok.kind = "num" THEN tok.suffix ELSE tok.text
         IN  IF p = "" THEN Parsed(d)
             ELSE IF TimeFactors(p) # <<>> THEN Parsed(Times(d, TimeFactors(p)))
             ELSE Refused("Bad argument")

\* arg_strn: any token.
arg_strn(tok) ==
    IF tok = NoToken THEN Refused("Missing argument")
    ELSE [ok |-> TRUE, l |-> tok.text, msg |-> ""]

\* error_die: the message is written and the process exits with status 1.
Die(c, msg) == [c EXCEPT !.pc = "exited", !.code = 1, !.msg = msg]

\* The token after the option, and do_args moving past n tokens.
Arg(c) == IF Len(c.args) >= 2 THEN c.args[2] ELSE NoToken
Skip(c, n) == [c EXCEPT !.args = SubSeq(@, n + 1, Len(@))]

\* opt_long, opt_size and opt_time: the long the parser returned is given to
\* setp_u32 for both parameters of the row.
opt_long(c, option, r) ==
    IF ~r.ok THEN Die(c, r.msg)
    ELSE [Skip(c, 2) EXCEPT
            !.info = setp_u32(setp_u32(@, option.name, option.arg1, U32(r.l)),
                              option.name, option.arg2, U32(r.l)),
            !.opt = option.name, !.l = r.l]

\* opt_strn: setp_str refuses a string of STRSIZE characters or more.
opt_strn(c, option, tok) ==
    IF ~arg_strn(tok).ok THEN Die(c, arg_strn(tok).msg)
    ELSE IF tok.long THEN Die(c, "too long")
    ELSE [Skip(c, 2) EXCEPT
            !.info = setp_str(setp_str(@, option.name, option.arg1, tok.text),
                              option.name, option.arg2, tok.text),
            !.opt = option.name, !.l = tok.text]

\* opt_misc: the switch on arg1 with arg2.
opt_misc(c, option, tok) ==
    LET key == <<option.arg1, option.arg2>>
        flag(d) == [Skip(d, 1) EXCEPT !.opt = option.name]
        long(field) ==
            IF ~arg_long(tok).ok THEN Die(c, arg_long(tok).msg)
            ELSE [Skip(c, 2) EXCEPT ![field] = Trunc(arg_long(tok).l, 4),
                                    !.opt = option.name, !.l = arg_long(tok).l]
        time(field) ==
            IF ~arg_time(tok).ok THEN Die(c, arg_time(tok).msg)
            ELSE [Skip(c, 2) EXCEPT ![field] = Trunc(arg_time(tok).l, 4),
                                    !.opt = option.name, !.l = arg_time(tok).l]
    IN  CASE key = <<"e", "">> -> long("Precision")
          [] key = <<"u", "">> -> flag([c EXCEPT !.UnifyUnits = 1])
          [] key = <<"v", "">> ->
                flag([c EXCEPT !.VerboseConf = 1, !.VerboseStat = 1,
                               !.VerboseTime = 1, !.VerboseUsed = 1])
          [] key = <<"D", "">> -> flag([c EXCEPT !.Debug = 1])
          [] key = <<"H", "">> ->
                IF ~arg_strn(tok).ok THEN Die(c, arg_strn(tok).msg)
                ELSE [Skip(c, 2) EXCEPT !.ServerName = tok.text,
                                        !.opt = option.name, !.l = tok.text]
          [] key = <<"U", "">> -> flag([c EXCEPT !.UnifyNodes = 1])
          [] key = <<"W", "">> -> time("Wait")
          [] key = <<"l", "p">> -> long("ListenPort")
          [] key = <<"s", "t">> -> time("ServerTimeout")
          [] key = <<"v", "c">> -> flag([c EXCEPT !.VerboseConf = 1])
          [] key = <<"v", "s">> -> flag([c EXCEPT !.VerboseStat = 1])
          [] key = <<"v", "t">> -> flag([c EXCEPT !.VerboseTime = 1])
          [] key = <<"v", "u">> -> flag([c EXCEPT !.VerboseUsed = 1])
          [] key = <<"v", "v">> ->
                flag([c EXCEPT !.VerboseConf = 2, !.VerboseStat = 2,
                               !.VerboseTime = 2, !.VerboseUsed = 2])
          [] key = <<"v", "C">> -> flag([c EXCEPT !.VerboseConf = 2])
          [] key = <<"v", "S">> -> flag([c EXCEPT !.VerboseStat = 2])
          [] key = <<"v", "T">> -> flag([c EXCEPT !.VerboseTime = 2])
          [] key = <<"v", "U">> -> flag([c EXCEPT !.VerboseUsed = 2])
          [] OTHER -> Die(c, "internal error")

\* opt_help and opt_vers end the process: the version and a help text that
\* is found with status 0, a help category that is not found with status 1.
\* The category is the token after the option, "main" when there is none.
opt_help(c, found) ==
    IF found THEN [c EXCEPT !.pc = "exited", !.code = 0]
    ELSE Die(c, "Cannot find help category")
opt_vers(c) == [c EXCEPT !.pc = "exited", !.code = 0]

\* option->func(option, &args)
OptCall(c, option, tok, found) ==
    CASE option.func = "opt_long" -> opt_long(c, option, arg_long(tok))
      [] option.func = "opt_size" -> opt_long(c, option, arg_size(tok))
      [] option.func = "opt_time" -> opt_long(c, option, arg_time(tok))
      [] option.func = "opt_strn" -> opt_strn(c, option, tok)
      [] option.func = "opt_misc" -> opt_misc(c, option, tok)
      [] option.func = "opt_help" -> opt_help(c, found)
      [] option.func = "opt_vers" -> opt_vers(c)

\* if (!option->server_valid) isClient = 1;
ClientOnlyNever(option) == FALSE
ClientOnly(option) == option.server_valid = 0

\* arg[0] == '-'
Dash(tok) == tok.kind = "opt" \/ (tok.kind = "num" /\ tok.neg)

\* do_args: a token that starts with '-'.
ArgsOption(found) ==
    /\ cmd.pc = "args" /\ cmd.args # <<>>
    /\ Dash(Head(cmd.args))
    /\ found \/ (Head(cmd.args).text \in {"--help", "-h"} /\ Len(cmd.args) >= 2)
    /\ LET option == find_option(Head(cmd.args).text)
       IN  cmd' = IF option.name = NoName THEN Die(cmd, "bad option")
                  ELSE OptCall([cmd EXCEPT
                                  !.isClient = @ \/ ClientOnly(option)],
                               option, Arg(cmd), found)
    /\ UNCHANGED <<now, Req, chan, eof, io, proc, srvv, tm, cl, par, codec, view>>

\* do_args: a bare token is the server name, or with that known the name
\* of a test, which client() starts.
ArgsBare ==
    /\ cmd.pc = "args" /\ cmd.args # <<>>
    /\ ~Dash(Head(cmd.args))
    /\ cmd' = IF cmd.ServerName = NoName
              THEN [Skip(cmd, 1) EXCEPT !.isClient = TRUE,
                                        !.ServerName = Head(cmd.args).text]
              ELSE IF ~find_test(Head(cmd.args).text)
              THEN Die([cmd EXCEPT !.isClient = TRUE], "bad test")
              ELSE [cmd EXCEPT !.isClient = TRUE, !.pc = "client",
                               !.TestName = Head(cmd.args).text]
    /\ UNCHANGED <<now, Req, chan, eof, io, proc, srvv, tm, cl, par, codec, view>>

\* client(): inuse is cleared in every row, the defaults are applied and
\* the affinities and the times are marked used.
client_pars(info) ==
    LET a == [index \in DOMAIN info |-> [info[index] EXCEPT !.inuse = FALSE]]
        b == IF ~par_isset(a, "L_NO_MSGS")
             THEN setp_u32(a, NoName, "L_TIME", WordOf(DefaultTime)) ELSE a
        c == IF ~par_isset(b, "R_NO_MSGS")
             THEN setp_u32(b, NoName, "R_TIME", WordOf(DefaultTime)) ELSE b
        d == setp_u32(c, NoName, "L_TIMEOUT", WordOf(DefaultTimeout))
        e == setp_u32(d, NoName, "R_TIMEOUT", WordOf(DefaultTimeout))
    IN  par_use(par_use(par_use(par_use(e, "L_AFFINITY"), "R_AFFINITY"),
                        "L_TIME"), "R_TIME")

\* The fields of REQ the rows of ParInfo point into, a pair of rows each.
PtrFields ==
    <<"access_recv", "affinity", "flip", "id", "msg_size", "mtu_size",
      "no_msgs", "poll_mode", "port", "rate", "rd_atomic", "sock_buf_size",
      "time", "timeout">>

\* The ptr column with the two structures exchanged in the rows of
\* sock_buf_size.
ParPtrCrossed(index) ==
    LET i == CHOOSE k \in DOMAIN ParInfoOrder : ParInfoOrder[k] = index
        crossed == PtrFields[i \div 2] = "sock_buf_size"
    IN  [struct |-> IF (i % 2 = 0) # crossed THEN "Req" ELSE "RReq",
         field |-> PtrFields[i \div 2]]

\* The ptr column of ParInfo: &Req.x in the row of L_X, &RReq.x in the row
\* of R_X.
ParPtr(index) ==
    LET i == CHOOSE k \in DOMAIN ParInfoOrder : ParInfoOrder[k] = index
    IN  [struct |-> IF i % 2 = 0 THEN "Req" ELSE "RReq",
         field |-> PtrFields[i \div 2]]

\* The row whose ptr is the field of the structure.
PtrRows ==
    [struct \in {"Req", "RReq"}, field \in {PtrFields[i] : i \in DOMAIN PtrFields}
       |-> CHOOSE index \in ParIndices \ {P_NULL} :
              ParPtr(index) = [struct |-> struct, field |-> field]]
SlotAt(struct, field) == PtrRows[struct, field]

\* The characters of the strings given as values here, and the vector
\* strcpy leaves in static storage.
Ascii(s) == CASE s = "" -> <<>> [] s = "1" -> <<49>> [] s = "2" -> <<50>>
StrVec(s) == [i \in 1..StrBytes |-> IF i <= Len(Ascii(s)) THEN Ascii(s)[i] ELSE 0]

\* test - Tests.
TestIndex(name) ==
    CASE name = "conf" -> CONF_INDEX [] name = "quit" -> QUIT_INDEX
      [] name = "rds_bw" -> 2

\* RReq as client() leaves it: the fields the rows of ParInfo point at,
\* the version and the index of the test.
RReqOf(info, name) ==
    [f \in {ReqEncOrder[i] : i \in DOMAIN ReqEncOrder} \cup {"id", "rate"} |->
       CASE f = "ver_maj" -> WordOf(VER_MAJ)
         [] f = "ver_min" -> WordOf(VER_MIN)
         [] f = "ver_inc" -> WordOf(VER_INC)
         [] f = "req_index" -> WordOf(TestIndex(name))
         [] f \in {"id", "rate"} -> StrVec(info[SlotAt("RReq", f)].val)
         [] OTHER -> info[SlotAt("RReq", f)].val]

\* client_send_request: enc_init(&req) and enc_req(&RReq).
RequestFrame(info, name) ==
    enc_req([buf |-> <<>>, ptr |-> 0], RReqOf(info, name)).buf

\* client(p) prepares the table and runs the test, which returns to do_args
\* or ends the process: quit with status 0, a failure to reach the server
\* with status 1.
ArgsClient(returns, code) ==
    /\ cmd.pc = "client"
    /\ returns => cmd.TestName # "quit"
    /\ cmd' = IF returns
              THEN [Skip(cmd, 1) EXCEPT !.pc = "args", !.testSpecified = TRUE,
                                        !.info = client_pars(@)]
              ELSE [cmd EXCEPT !.pc = "exited", !.code = code,
                               !.info = client_pars(@)]
    /\ UNCHANGED <<now, Req, chan, eof, io, proc, srvv, tm, cl, par, codec, view>>

\* do_args after the last token: server() when nothing made the process a
\* client, an error when a client named no test, else the return to main.
ArgsEnd ==
    /\ cmd.pc = "args" /\ cmd.args = <<>>
    /\ cmd' = IF ~cmd.isClient THEN [cmd EXCEPT !.pc = "server"]
              ELSE IF cmd.testSpecified THEN [cmd EXCEPT !.pc = "returned"]
              ELSE IF cmd.ServerName = NoName
              THEN Die(cmd, "Do you want to be a client or server?")
              ELSE IF find_test(cmd.ServerName)
              THEN Die(cmd, "Must specify host name first")
              ELSE Die(cmd, "Must specify a test type")
    /\ UNCHANGED <<now, Req, chan, eof, io, proc, srvv, tm, cl, par, codec, view>>

\* The option names put on the command lines: the parameter options in
\* their three forms, whether Options has them or not, and others.
ParamNames ==
    {"msg_size", "mtu_size", "sock_buf_size", "no_msgs", "port", "affinity",
     "poll", "access_recv", "flip", "rd_atomic", "time", "timeout", "id",
     "rate"}
Forms ==
    [n \in ParamNames |->
       CASE n = "msg_size" -> <<"--msg_size", "--loc_msg_size", "--rem_msg_size">>
         [] n = "mtu_size" -> <<"--mtu_size", "--loc_mtu_size", "--rem_mtu_size">>
         [] n = "sock_buf_size" ->
               <<"--sock_buf_size", "--loc_sock_buf_size", "--rem_sock_buf_size">>
         [] n = "no_msgs" -> <<"--no_msgs", "--loc_no_msgs", "--rem_no_msgs">>
         [] n = "port" -> <<"--port", "--loc_port", "--rem_port">>
         [] n = "affinity" -> <<"--affinity", "--loc_affinity", "--rem_affinity">>
         [] n = "poll" -> <<"--poll", "--loc_poll", "--rem_poll">>
         [] n = "access_recv" ->
               <<"--access_recv", "--loc_access_recv", "--rem_access_recv">>
         [] n = "flip" -> <<"--flip", "--loc_flip", "--rem_flip">>
         [] n = "rd_atomic" ->
               <<"--rd_atomic", "--loc_rd_atomic", "--rem_rd_atomic">>
         [] n = "time" -> <<"--time", "--loc_time", "--rem_time">>
         [] n = "timeout" -> <<"--timeout", "--loc_timeout", "--rem_timeout">>
         [] n = "id" -> <<"--id", "--loc_id", "--rem_id">>
         [] n = "rate" -> <<"--rate", "--loc_rate", "--rem_rate">>]
OtherNames ==
    {"-rd_atomic", "--debug", "--listen_port", "--host", "--help",
     "--version", "--verbose", "--verbose_more_conf", "-vC", "--unify_units",
     "--server_timeout", "--bad"}
OptTokens ==
    {[kind |-> "opt", text |-> t, neg |-> FALSE, digits |-> <<>>,
      suffix |-> "", long |-> FALSE] :
        t \in OtherNames \cup UNION {{Forms[n][1], Forms[n][2], Forms[n][3]} :
                                        n \in ParamNames}}

\* Numbers: 0, 1, 2^32 - 1, 2^32, -1, 4k, 2K and a number before a unit
\* that is none.
Num(text, neg, digits, suffix) ==
    [kind |-> "num", text |-> text, neg |-> neg, digits |-> digits,
     suffix |-> suffix, long |-> FALSE]
NumTokens ==
    {Num("0", FALSE, <<0>>, ""), Num("1", FALSE, <<1>>, ""),
     Num("4294967295", FALSE, <<4, 2, 9, 4, 9, 6, 7, 2, 9, 5>>, ""),
     Num("4294967296", FALSE, <<4, 2, 9, 4, 9, 6, 7, 2, 9, 6>>, ""),
     Num("-1", TRUE, <<1>>, ""), Num("4k", FALSE, <<4>>, "k"),
     Num("2K", FALSE, <<2>>, "K"), Num("5x", FALSE, <<5>>, "x")}

\* Words: a host, two tests, and a string of STRSIZE characters.
Word(text, long) ==
    [kind |-> "word", text |-> text, neg |-> FALSE, digits |-> <<>>,
     suffix |-> "", long |-> long]
WordTokens ==
    {Word("host", FALSE), Word("quit", FALSE), Word("rds_bw", FALSE),
     Word("a_string_of_STRSIZE_characters", TRUE)}

CmdTokens == OptTokens \cup NumTokens \cup WordTokens
CmdLines == UNION {[1..n -> CmdTokens] : n \in 0..MaxTokens}

\* main() calls do_args(&argv[1]) with the statics as they are initialised.
CmdStart(args) ==
    [pc |-> "args", given |-> args, args |-> args, isClient |-> FALSE,
     testSpecified |-> FALSE, ServerName |-> NoName, TestName |-> NoName,
     info |-> ParInfoZero, Debug |-> 0, UnifyUnits |-> 0, UnifyNodes |-> 0,
     VerboseConf |-> 0, VerboseStat |-> 0, VerboseTime |-> 0,
     VerboseUsed |-> 0, Wait |-> WordZero, Precision |-> WordOf(3),
     ListenPort |-> WordOf(19765), ServerTimeout |-> WordOf(5),
     opt |-> NoName, l |-> WordZero, code |-> 0, msg |-> ""]

InitArgs ==
    /\ InitBase
    /\ par = NoPar /\ codec = NoCodec /\ view = NoView
    /\ \E args \in CmdLines : cmd = CmdStart(args)

NextArgs ==
    \/ \E found \in BOOLEAN : ArgsOption(found)
    \/ ArgsBare
    \/ \E returns \in BOOLEAN, code \in {0, 1} : ArgsClient(returns, code)
    \/ ArgsEnd

SpecArgs == InitArgs /\ [][NextArgs]_vars

\* The tokens of a command line that do_args meets as options or as bare
\* tokens: the argument an option takes is passed over.
TakesArg(tok) ==
    /\ Dash(tok)
    /\ find_option(tok.text).name # NoName
    /\ LET option == find_option(tok.text)
       IN  \/ option.func \in {"opt_long", "opt_size", "opt_time", "opt_strn"}
           \/ /\ option.func = "opt_misc"
              /\ <<option.arg1, option.arg2>> \in
                    {<<"e", "">>, <<"H", "">>, <<"W", "">>, <<"l", "p">>,
                     <<"s", "t">>}
RECURSIVE Heads(_)
Heads(args) ==
    IF args = <<>> THEN <<>>
    ELSE <<Head(args)>> \o
         Heads(SubSeq(args, IF TakesArg(Head(args)) THEN 3 ELSE 2, Len(args)))

\* A command line with an option that is not valid on a server, or with a
\* bare token; one that gives a server name, bare or with --host.
ClientLine(args) ==
    \E i \in DOMAIN Heads(args) :
        \/ ~Dash(Heads(args)[i])
        \/ find_option(Heads(args)[i].text).name = NoName
        \/ find_option(Heads(args)[i].text).server_valid = 0
NamesServer(args) ==
    \E i \in DOMAIN Heads(args) :
        \/ ~Dash(Heads(args)[i])
        \/ Heads(args)[i].text \in {"--host", "-H"}

\* do_args went through every token and has selected.
AllParsed == cmd.pc \in {"server", "returned", "exited"} /\ cmd.args = <<>>

\* C24: after all tokens are parsed the process runs the server loop if and
\* only if the command line has no option that is not valid on a server and
\* no bare token; a client command line with no test and no server name
\* ends with 'Do you want to be a client or server?' and status 1, and the
\* server loop is entered on no client command line.
C24_Mode ==
    /\ cmd.pc = "server" => ~ClientLine(cmd.given)
    /\ AllParsed =>
          /\ cmd.pc = "server" <=> ~ClientLine(cmd.given)
          /\ ClientLine(cmd.given) /\ ~NamesServer(cmd.given) =>
                /\ cmd.pc = "exited" /\ cmd.code = 1
                /\ cmd.msg = "Do you want to be a client or server?"
C24_Witness ==
    /\ AllParsed /\ Len(cmd.given) = 2
    /\ cmd.given[1].text = "--debug" /\ cmd.given[2].text = "--verbose"
    /\ cmd.msg = "Do you want to be a client or server?"

\* do_args has handled one parameter option with its value and nothing
\* else: the state after parsing '<option> v'.
ParamFuncs == {"opt_long", "opt_size", "opt_time", "opt_strn"}
JustParsed ==
    /\ cmd.pc = "args" /\ Len(cmd.given) >= 2
    /\ cmd.args = SubSeq(cmd.given, 3, Len(cmd.given))
    /\ cmd.opt = cmd.given[1].text
    /\ find_option(cmd.opt).func \in ParamFuncs
Assigned(option) == {option.arg1, option.arg2} \ {P_NULL}

\* C27: after '<option> v' is parsed every parameter of the option is set and
\* the value read back from its slot is the value v the parser returned.
C27_ReadBack ==
    JustParsed =>
        \A index \in Assigned(find_option(cmd.opt)) :
            /\ par_isset(cmd.info, index)
            /\ cmd.info[index].val = cmd.l

\* The local and the remote parameter of each parameter option.
ParamSlots ==
    [n \in ParamNames |->
       CASE n = "msg_size" -> <<"L_MSG_SIZE", "R_MSG_SIZE">>
         [] n = "mtu_size" -> <<"L_MTU_SIZE", "R_MTU_SIZE">>
         [] n = "sock_buf_size" -> <<"L_SOCK_BUF_SIZE", "R_SOCK_BUF_SIZE">>
         [] n = "no_msgs" -> <<"L_NO_MSGS", "R_NO_MSGS">>
         [] n = "port" -> <<"L_PORT", "R_PORT">>
         [] n = "affinity" -> <<"L_AFFINITY", "R_AFFINITY">>
         [] n = "poll" -> <<"L_POLL_MODE", "R_POLL_MODE">>
         [] n = "access_recv" -> <<"L_ACCESS_RECV", "R_ACCESS_RECV">>
         [] n = "flip" -> <<"L_FLIP", "R_FLIP">>
         [] n = "rd_atomic" -> <<"L_RD_ATOMIC", "R_RD_ATOMIC">>
         [] n = "time" -> <<"L_TIME", "R_TIME">>
         [] n = "timeout" -> <<"L_TIMEOUT", "R_TIMEOUT">>
         [] n = "id" -> <<"L_ID", "R_ID">>
         [] n = "rate" -> <<"L_RATE", "R_RATE">>]
FormSlots(n, k) ==
    IF k = 1 THEN {ParamSlots[n][1], ParamSlots[n][2]}
    ELSE IF k = 2 THEN {ParamSlots[n][1]} ELSE {ParamSlots[n][2]}

\* do_args has dealt with the first token, which is the name, and 1 follows.
FirstDone(name) ==
    /\ Len(cmd.given) >= 2
    /\ cmd.given[1].text = name /\ cmd.given[2].text = "1"
    /\ cmd.pc = "exited" \/ Len(cmd.args) < Len(cmd.given)

\* C28: each parameter option is accepted as --<name>, --loc_<name> and
\* --rem_<name>, and the three forms set both parameters, only the local
\* one and only the remote one.
C28_Surface ==
    \A n \in ParamNames, k \in 1..3 :
        FirstDone(Forms[n][k]) =>
            /\ cmd.msg # "bad option"
            /\ Len(cmd.args) = Len(cmd.given) - 2 =>
                  {index \in ParIndices : cmd.info[index].set} = FormSlots(n, k)

-----------------------------------------------------------------------------
(* The view_* functions: verbose, the units, nice_1024, commify and the    *)
(* rows placed in ShowTable.                                               *)

\* Base-1024 digits of the largest long long a view_size or view_long is
\* called with.
MaxDigits == 3

\* A long long is a sign and its magnitude in base 1024, highest digit
\* first; a double is a sign, decimal digits, highest first, and the number
\* of times it was divided by 1000.
Kib == 1024
LongLong(neg, mag) == [neg |-> neg, mag |-> mag]
Double(neg, dec, n) == [neg |-> neg, dec |-> dec, n |-> n]

\* l * m + c on decimal digits, lowest first, as long as it gets.
RECURSIVE DecMulAdd(_, _, _)
DecMulAdd(l, m, c) ==
    IF l = <<>>
    THEN IF c = 0 THEN <<>> ELSE <<c % 10>> \o DecMulAdd(<<>>, m, c \div 10)
    ELSE <<(l[1] * m + c) % 10>> \o
         DecMulAdd(Tail(l), m, (l[1] * m + c) \div 10)
RECURSIVE DecOf(_, _)
DecOf(mag, acc) ==
    IF mag = <<>> THEN acc
    ELSE DecOf(Tail(mag), DecMulAdd(acc, Kib, Head(mag)))
Reverse(s) == [i \in 1..Len(s) |-> s[Len(s) + 1 - i]]

\* The decimal digits of a magnitude, highest first; 0 is one digit.
Decimal(mag) ==
    LET dec == DecOf(mag, <<>>)
    IN  IF dec = <<>> THEN <<0>> ELSE Reverse(dec)

\* double val = value
ToDouble(value) == Double(value.neg, Decimal(value.mag), 0)

\* value *= 1E9, value *= 100: zeros after the digits of a number that is
\* not 0.
Scaled(value, zeros) ==
    IF value.dec = <<0>> THEN value
    ELSE [value EXCEPT !.dec = @ \o [i \in 1..zeros |-> 0]]

\* value <= 0
NotPositive(value) == value.neg \/ value.dec = <<0>>

\* verbose: 'a' always; otherwise a value above 0 and the setting the type
\* asks for.
verbose_any(v, type, value) ==
    IF type = "a" THEN TRUE
    ELSE CASE type = "d" -> v.Debug # 0
           [] type = "c" -> v.VerboseConf >= 1
           [] type = "s" -> v.VerboseStat >= 1
           [] type = "t" -> v.VerboseTime >= 1
           [] type = "u" -> v.VerboseUsed >= 1
           [] type = "C" -> v.VerboseConf >= 2
           [] type = "S" -> v.VerboseStat >= 2
           [] type = "T" -> v.VerboseTime >= 2
           [] type = "U" -> v.VerboseUsed >= 2
verbose(v, type, value) ==
    IF type = "a" THEN TRUE
    ELSE IF NotPositive(value) THEN FALSE
    ELSE CASE type = "d" -> v.Debug # 0
           [] type = "c" -> v.VerboseConf >= 1
           [] type = "s" -> v.VerboseStat >= 1
           [] type = "t" -> v.VerboseTime >= 1
           [] type = "u" -> v.VerboseUsed >= 1
           [] type = "C" -> v.VerboseConf >= 2
           [] type = "S" -> v.VerboseStat >= 2
           [] type = "T" -> v.VerboseTime >= 2
           [] type = "U" -> v.VerboseUsed >= 2

\* while (value >= 1000 && n < cardof(tab)-1) { value /= 1000; ++n; }
Ladder(value, last) ==
    IF value.neg THEN value
    ELSE [value EXCEPT
            !.n = IF (Len(value.dec) - 1) \div 3 < last
                  THEN (Len(value.dec) - 1) \div 3 ELSE last]

\* sprintf("%lld"): the characters of the number.
DigitChars == <<"0", "1", "2", "3", "4", "5", "6", "7", "8", "9">>
Lld(value) ==
    LET dec == Decimal(value.mag)
    IN  (IF value.neg THEN <<"-">> ELSE <<>>) \o
        [i \in 1..Len(dec) |-> DigitChars[dec[i] + 1]]

\* commify: a comma before every group of three digits counted from the
\* end, unless the units are unified.
RECURSIVE CommasFrom(_, _, _)
CommasFrom(data, i, seqS) ==
    IF i > Len(data) THEN <<>>
    ELSE (IF i > seqS /\ (Len(data) - i + 1) % 3 = 0 THEN <<",">> ELSE <<>>)
         \o <<data[i]>> \o CommasFrom(data, i + 1, seqS)
commify(v, data) ==
    IF v.UnifyUnits # 0 THEN data
    ELSE LET seqS == IF data[1] = "-" THEN 2 ELSE 1
         IN  IF (Len(data) - seqS) \div 3 = 0 THEN data
             ELSE SubSeq(data, 1, seqS - 1) \o CommasFrom(data, seqS, seqS)

\* No unit, no alternative: null pointers.
NoText == <<>>

\* place_any: one more row of ShowTable.
place_any(pref, name, unit, data, altn) ==
    <<[pref |-> pref, name |-> name, unit |-> unit, data |-> data,
       altn |-> altn]>>

\* place_val: the row holds the number; the digits %.0f and %.*f print for
\* it are not followed.
place_val(pref, name, unit, value) ==
    place_any(pref, name, unit, value, NoText)

\* nice_1024: the rows it places, none when it returns 0.  val is the
\* magnitude that is left, n the place in tab.
BinaryUnits == <<"KiB", "MiB", "GiB", "TiB">>
RECURSIVE Nice1024Any(_, _)
Nice1024Any(val, n) ==
    IF Len(val) > 1 /\ n < Len(BinaryUnits) - 1
    THEN Nice1024Any(SubSeq(val, 1, Len(val) - 1), n + 1)
    ELSE [val |-> val, n |-> n, ok |-> TRUE]
RECURSIVE Nice1024Loop(_, _)
Nice1024Loop(val, n) ==
    IF Len(val) > 1 /\ n < Len(BinaryUnits) - 1
    THEN IF val[Len(val)] # 0 THEN [val |-> val, n |-> n, ok |-> FALSE]
         ELSE Nice1024Loop(SubSeq(val, 1, Len(val) - 1), n + 1)
    ELSE [val |-> val, n |-> n, ok |-> TRUE]
nice_1024(v, pref, name, value) ==
    IF value.neg \/ Len(value.mag) < 2 \/ value.mag[Len(value.mag)] # 0
    THEN <<>>
    ELSE LET r == Nice1024Loop(SubSeq(value.mag, 1, Len(value.mag) - 1), 0)
         IN  IF ~r.ok THEN <<>>
             ELSE place_any(pref, name, BinaryUnits[r.n + 1],
                            commify(v, Lld(LongLong(FALSE, r.val))),
                            commify(v, Lld(value)))

\* The tables of units.
BandUnits == <<"bytes/sec", "KB/sec", "MB/sec", "GB/sec", "TB/sec">>
CostUnits == <<"ns/GB", "us/GB", "ms/GB", "sec/GB">>
RateUnits == <<"/sec", "K/sec", "M/sec", "G/sec", "T/sec">>
LongUnits == <<"", "thousand", "million", "billion", "trillion">>
SizeUnits == <<"bytes", "KB", "MB", "GB", "TB">>
TimeUnits == <<"ns", "us", "ms", "sec">>

\* A view_* that scales its value through a table of units.
Stepped(v, pref, name, tab, value) ==
    LET val == IF v.UnifyUnits = 0 THEN Ladder(value, Len(tab) - 1) ELSE value
    IN  place_val(pref, name, tab[val.n + 1], val)

\* The rows each view_* places.
view_band(v, type, pref, name, value) ==
    IF ~verbose(v, type, value) THEN <<>>
    ELSE Stepped(v, pref, name, BandUnits, value)
view_cost(v, type, pref, name, value) ==
    IF ~verbose(v, type, Scaled(value, 9)) THEN <<>>
    ELSE Stepped(v, pref, name, CostUnits, Scaled(value, 9))
view_cpus(v, type, pref, name, value) ==
    IF ~verbose(v, type, Scaled(value, 2)) THEN <<>>
    ELSE place_val(pref, name, "% cpus", Scaled(value, 2))
view_rate(v, type, pref, name, value) ==
    IF ~verbose(v, type, value) THEN <<>>
    ELSE Stepped(v, pref, name, RateUnits, value)
view_long(v, type, pref, name, value) ==
    LET val == ToDouble(value)
    IN  IF ~verbose(v, type, val) THEN <<>>
        ELSE IF v.UnifyUnits = 0 /\ ~val.neg /\ Len(val.dec) >= 7
        THEN Stepped(v, pref, name, LongUnits, val)
        ELSE place_val(pref, name, LongUnits[1], val)
view_size(v, type, pref, name, value) ==
    LET val == ToDouble(value)
        nice == nice_1024(v, pref, name, value)
    IN  IF ~verbose(v, type, val) THEN <<>>
        ELSE IF v.UnifyUnits = 0 /\ nice # <<>> THEN nice
        ELSE Stepped(v, pref, name, SizeUnits, val)
view_strn(v, type, pref, name, value) ==
    IF ~verbose(v, type, Double(FALSE, IF value # "" THEN <<1>> ELSE <<0>>, 0))
    THEN <<>>
    ELSE place_any(pref, name, NoText, value, NoText)
view_time(v, type, pref, name, value) ==
    IF ~verbose(v, type, Scaled(value, 9)) THEN <<>>
    ELSE Stepped(v, pref, name, TimeUnits, Scaled(value, 9))

\* The types the calls of the program pass.
ViewTypes == {"a", "d", "c", "s", "t", "u", "C", "S", "T", "U"}

\* The values of the calls: doubles -1, 0, 1, 2 and 1500, strings, and the
\* long longs 0, -1, every magnitude of up to MaxDigits digits 0 and 1 in
\* base 1024, and some with other digits and with more of them.
Doubles ==
    {Double(TRUE, <<1>>, 0), Double(FALSE, <<0>>, 0), Double(FALSE, <<1>>, 0),
     Double(FALSE, <<2>>, 0), Double(FALSE, <<1, 5, 0, 0>>, 0)}
Strings == {"", "id"}
Magnitudes ==
    {m \in UNION {[1..n -> {0, 1}] : n \in 1..MaxDigits} : m[1] # 0}
    \cup {<<2, 0, 0>>, <<1023>>, <<1023, 0>>, <<3, 512>>, <<1, 0, 0, 0>>,
          <<1, 0, 0, 0, 0>>, <<1, 0, 1, 0, 0>>, <<1, 0, 0, 0, 0, 0>>,
          <<1, 1, 0, 0, 0, 0>>}
LongLongs ==
    {LongLong(FALSE, m) : m \in Magnitudes}
    \cup {LongLong(FALSE, <<>>), LongLong(TRUE, <<1>>)}

\* A view_* is called and returns.
ViewCall(func, type, value, rows) ==
    /\ view.pc = "ready"
    /\ view' = [view EXCEPT !.pc = "done", !.func = func, !.type = type,
                            !.value = value]
    /\ ShowTable' = ShowTable \o rows
    /\ UNCHANGED <<now, Req, chan, eof, io, sy, Successful, itimer, LStat, xr,
                   RStat, Res, srvv, tm, cl, par, codec, cmd>>

ViewBand(type, value) ==
    ViewCall("view_band", type, value, view_band(view, type, "", "bw", value))
ViewCost(type, value) ==
    ViewCall("view_cost", type, value,
             view_cost(view, type, "", "send_cost", value))
ViewCpus(type, value) ==
    ViewCall("view_cpus", type, value,
             view_cpus(view, type, "", "loc_cpus_used", value))
ViewRate(type, value) ==
    ViewCall("view_rate", type, value,
             view_rate(view, type, "", "msg_rate", value))
ViewLong(type, value) ==
    ViewCall("view_long", type, value,
             view_long(view, type, "", "send_msgs", value))
ViewSize(type, value) ==
    ViewCall("view_size", type, value,
             view_size(view, type, "", "send_bytes", value))
ViewStrn(type, value) ==
    ViewCall("view_strn", type, value, view_strn(view, type, "", "id", value))
ViewTime(type, value) ==
    ViewCall("view_time", type, value,
             view_time(view, type, "", "latency", value))

\* The verbosity no option or one option leaves: all four counters at 0,
\* at 1 (--verbose) or at 2 (--verbose_more), or one of them at 1 or 2.
Verbosities ==
    {[c \in {"Conf", "Stat", "Time", "Used"} |-> k] : k \in 0..2}
    \cup {[c \in {"Conf", "Stat", "Time", "Used"} |-> IF c = one THEN k ELSE 0] :
            one \in {"Conf", "Stat", "Time", "Used"}, k \in 1..2}

\* The settings when the rows of a test are placed.
InitView ==
    /\ InitBase
    /\ par = NoPar /\ codec = NoCodec /\ cmd = NoCmd
    /\ \E Debug \in 0..1, UnifyUnits \in 0..1, vb \in Verbosities :
          view = [pc |-> "ready", Debug |-> Debug, UnifyUnits |-> UnifyUnits,
                  VerboseConf |-> vb["Conf"], VerboseStat |-> vb["Stat"],
                  VerboseTime |-> vb["Time"], VerboseUsed |-> vb["Used"],
                  func |-> "", type |-> "", value |-> ""]

NextView ==
    \/ \E type \in ViewTypes, value \in Doubles : ViewBand(type, value)
    \/ \E type \in ViewTypes, value \in Doubles : ViewCost(type, value)
    \/ \E type \in ViewTypes, value \in Doubles : ViewCpus(type, value)
    \/ \E type \in ViewTypes, value \in Doubles : ViewRate(type, value)
    \/ \E type \in ViewTypes, value \in LongLongs : ViewLong(type, value)
    \/ \E type \in ViewTypes, value \in LongLongs : ViewSize(type, value)
    \/ \E type \in ViewTypes, value \in Strings : ViewStrn(type, value)
    \/ \E type \in ViewTypes, value \in Doubles : ViewTime(type, value)

SpecView == InitView /\ [][NextView]_vars

\* The value of the call is above 0: a string that is not empty, a number
\* that is neither negative nor 0.
ValuePositive ==
    IF view.func = "view_strn" THEN view.value # ""
    ELSE IF view.func \in {"view_long", "view_size"}
    THEN ~view.value.neg /\ view.value.mag # <<>>
    ELSE ~view.value.neg /\ view.value.dec # <<0>>

\* The setting the type of the call asks for.
TypeHolds ==
    \/ view.type = "d" /\ view.Debug = 1
    \/ view.type = "c" /\ view.VerboseConf >= 1
    \/ view.type = "s" /\ view.VerboseStat >= 1
    \/ view.type = "t" /\ view.VerboseTime >= 1
    \/ view.type = "u" /\ view.VerboseUsed >= 1
    \/ view.type = "C" /\ view.VerboseConf >= 2
    \/ view.type = "S" /\ view.VerboseStat >= 2
    \/ view.type = "T" /\ view.VerboseTime >= 2
    \/ view.type = "U" /\ view.VerboseUsed >= 2

\* C25: a view_* call places a row if and only if its type is 'a', or its
\* value is above 0 and the setting its type asks for holds; a call with
\* another type and a value of 0 or less places none at any verbosity.
C25_Gate ==
    view.pc = "done" =>
        /\ Len(ShowTable) = 1 <=> (view.type = "a" \/ (ValuePositive /\ TypeHolds))
        /\ Len(ShowTable) <= 1
        /\ view.type # "a" /\ ~ValuePositive => ShowTable = <<>>
C25_Witness ==
    /\ view.pc = "done" /\ view.func = "view_size" /\ view.type = "s"
    /\ view.VerboseStat = 2 /\ view.value = LongLong(FALSE, <<>>)
    /\ ShowTable = <<>>

\* view_size placed a row with the units not unified.
SizeShown ==
    /\ view.pc = "done" /\ view.func = "view_size" /\ view.UnifyUnits = 0
    /\ Len(ShowTable) = 1

\* The last k digits in base 1024 are 0 and a digit that is not 0 is before
\* them: a multiple of 1024^k that is not 0.
MultipleOf(value, k) ==
    /\ ~value.neg /\ Len(value.mag) > k
    /\ \A i \in 1..k : value.mag[Len(value.mag) + 1 - i] = 0
Quotient(value, k) == LongLong(FALSE, SubSeq(value.mag, 1, Len(value.mag) - k))

\* The binary form: the quotient and the unit of 1024^k, with the count of
\* bytes as the alternative, both with commas.
BinaryForm(row, value, k) ==
    /\ row.unit = BinaryUnits[k]
    /\ row.data = commify(view, Lld(Quotient(value, k)))
    /\ row.altn = commify(view, Lld(value))
InBinaryForm(row) == \E k \in 1..Len(BinaryUnits) : row.unit = BinaryUnits[k]

\* C26 as stated: every value that is a multiple of 1024^k, not 0, for some
\* k from 1 to 4 is shown in binary form, and no other value is.
C26_EveryMultiple ==
    SizeShown =>
        /\ MultipleOf(view.value, 1) =>
              \E k \in 1..Len(BinaryUnits) : BinaryForm(ShowTable[1], view.value, k)
        /\ ~MultipleOf(view.value, 1) => ~InBinaryForm(ShowTable[1])

\* The quotient by 1024^k is below 1024, or k is 4.
NiceMultiple(value, k) ==
    /\ MultipleOf(value, k)
    /\ Len(value.mag) = k + 1 \/ k = Len(BinaryUnits)

\* C26: with the units not unified, a size that is shown is in binary form
\* exactly when it is q * 1024^k with k from 1 to 4, q at least 1 and
\* either q below 1024 or k = 4; it is then shown as q with the unit of
\* 1024^k and with its count of bytes as the alternative, 2097152 as
\* '2 MiB' with '2,097,152'.  Zero and values that are no multiple of 1024
\* are never shown in that form.
C26_NiceMultiple ==
    SizeShown =>
        /\ \A k \in 1..Len(BinaryUnits) :
              NiceMultiple(view.value, k) => BinaryForm(ShowTable[1], view.value, k)
        /\ InBinaryForm(ShowTable[1]) =>
              \E k \in 1..Len(BinaryUnits) : NiceMultiple(view.value, k)
        /\ view.value = LongLong(FALSE, <<2, 0, 0>>) =>
              /\ ShowTable[1].data = <<"2">> /\ ShowTable[1].unit = "MiB"
              /\ ShowTable[1].altn = <<"2", ",", "0", "9", "7", ",", "1", "5", "2">>
C26_Witness ==
    /\ SizeShown /\ view.type = "S"
    /\ view.value = LongLong(FALSE, <<2, 0, 0>>)
    /\ ShowTable[1].unit = "MiB"

-----------------------------------------------------------------------------
(* synchronize and the start of the measurement. *)

\* One step seen from side p: the second sync step starts only when the
\* first returned success; synchronize returns 1 only when the second did,
\* and in that step takes the start snapshot and sets the timer from
\* Req.time; no other step touches the snapshot or the timer; a return of
\* 0 leaves both as they were, which is no snapshot and no timer.
C29_Step ==
    \A p \in Sides :
        /\ sy'[p].pc = "second" /\ sy[p].pc # "second" =>
              sy[p].pc = "first" /\ io[p].pc = "ok"
        /\ sy'[p].pc = "ok" /\ sy[p].pc # "ok" =>
              /\ sy[p].pc = "second" /\ io[p].pc = "ok"
              /\ LStat'[p].time_s = now /\ LStat'[p].ns = LStat[p].ns + 1
              /\ itimer'[p] = IF Req[p].time = 0 THEN "off" ELSE "armed"
        /\ LStat'[p] # LStat[p] \/ itimer'[p] # itimer[p] =>
              sy[p].pc = "second" /\ sy'[p].pc = "ok"
        /\ sy'[p].pc = "failed" /\ sy[p].pc # "failed" =>
              /\ sy[p].pc \in {"first", "second"}
              /\ io[p].pc # "ok" \/ io[p].sr = "r"
              /\ LStat'[p] = LStat[p] /\ LStat[p].ns = 0
              /\ itimer'[p] = itimer[p] /\ itimer[p] = "off"

\* C29: a side calls start_timing(Req.time) only after both of its sync
\* steps succeeded, and in the step in which the second one succeeds; when
\* a send or a receive of the sync fails or the token does not match,
\* synchronize fails with no start snapshot taken and no timer armed.
C29_StartAfterSync == [][C29_Step]_vars
C29_Witness ==
    /\ sy["client"].pc = "ok" /\ itimer["client"] = "armed"
    /\ LStat["client"].ns = 1
    /\ sy["server"].pc = "ok" /\ itimer["server"] = "armed"
    /\ LStat["server"].ns = 1

-----------------------------------------------------------------------------
(* Signals and the framed transfer. *)

\* C30: a select of send_recv_mesg that a signal interrupts does not make
\* the transfer fail: the loop goes on from the select.
C30_InterruptRetries ==
    [][io["client"].pc = "select" => io'["client"].pc \notin IoFailed]_vars

----------------------------------------------------------------------------
(* The server's version check, lines 1050-1071, with clients of versions   *)
(* below, at and above the server's.                                       *)

\* The version numbers a client's request carries.
MaxVer == 2
Incs == {0, 1}
VersionRequests ==
    {[ReqZero EXCEPT !.ver_maj = maj, !.ver_min = min, !.ver_inc = inc,
                     !.req_index = 1, !.timeout = ServerTimeout] :
        maj \in 0..MaxVer, min \in 0..MaxVer, inc \in Incs}

\* The server accepts the connection of a client of which nothing or the
\* whole request is in the socket.
SrvAcceptVersion ==
    /\ \E r \in VersionRequests, pre \in {0, ReqLen} :
          /\ SrvAcceptConn(r, pre = ReqLen, pre)
          /\ chan' = [client |-> <<>>, server |-> SubSeq(EncReq, 1, pre)]
    /\ eof' = [p \in Sides |-> FALSE]
    /\ UNCHANGED <<now, Req, child, nchild, proc, beyondSrv>>

\* The first client connects.
EnvConnectFirst ==
    /\ queued.total = 0
    /\ EnvConnect

NextVersion ==
    \/ SrvListen
    \/ EnvConnectFirst
    \/ EnvSend
    \/ EnvClose
    \/ SrvAcceptVersion
    \/ SrvAcceptFail
    \/ SrvNonblockFail
    \/ IoRecv("server")
    \/ SrvRecvFailed
    \/ SrvDecode
    \/ SrvRejectVersion
    \/ SrvRejectIndex
    \/ SrvFork
    \/ SrvForkFail
    \/ ChildStart
    \/ ChildTest
    \/ ChildExit
    \/ SrvReap
    \/ TickServer

SpecVersion == InitServer /\ [][NextVersion]_vars

\* (major, minor) of a is below that of b.
Lower(a, b) == a[1] < b[1] \/ (a[1] = b[1] /\ a[2] < b[2])
ClientVersion == <<Req["server"].ver_maj, Req["server"].ver_min,
                   Req["server"].ver_inc>>
ServerVersion == <<VER_MAJ, VER_MIN, VER_INC>>

\* C31: on a version mismatch the message names the side whose (major,
\* minor) version is lower, with that side's version after "from" and the
\* higher version after "to".
C31_Step ==
    srv.pc = "check" /\ VersionDiffers(Req["server"]) /\ srv'.pc = "accept" =>
       srv'.upgrade =
          IF Lower(ClientVersion, ServerVersion)
          THEN [low |-> "client", from |-> ClientVersion, to |-> ServerVersion]
          ELSE [low |-> "server", from |-> ServerVersion, to |-> ClientVersion]
C31_UpgradeNamesLower == [][C31_Step]_vars

----------------------------------------------------------------------------
(* calc_results and calc_node on the statistics two sides can hold.        *)

\* The ticks of a snapshot; counters of the sides.
MaxTick == 2
CalcStats ==
    {[StatZero EXCEPT !.no_ticks = nt, !.time_s = ts, !.time_e = te,
                      !.cpu_e = ce, !.ns = 1, !.ne = 1,
                      !.s = [UstatZero EXCEPT !.no_bytes = sb],
                      !.r = [UstatZero EXCEPT !.no_bytes = rb,
                                              !.no_msgs = rm]] :
        nt \in {0, TicksPerSec}, ts \in 0..1, te \in 1..MaxTick,
        ce \in 0..1, sb \in {0, 2}, rb \in {0, 2}, rm \in {0, 1}}

\* The client is past exchange_results, with its own and the server's
\* statistics.
InitCalc ==
    /\ now = 1
    /\ Req = [p \in Sides |-> ReqZero]
    /\ chan = [p \in Sides |-> <<>>]
    /\ eof = [p \in Sides |-> FALSE]
    /\ io = [p \in Sides |-> NoIo]
    /\ sy = [p \in Sides |-> NoSync]
    /\ \E k \in {0, 1} : Successful = [client |-> k, server |-> 0]
    /\ itimer = [p \in Sides |-> "off"]
    /\ \E l \in CalcStats : LStat = [client |-> l, server |-> StatZero]
    /\ xr = [client |-> [NoXchg EXCEPT !.pc = "done"], server |-> NoXchg]
    /\ RStat \in CalcStats
    /\ Res = ResZero
    /\ ShowTable = <<>>
    /\ SrvInit
    /\ tm = NoTimer
    /\ cl = NoClient
    /\ par = NoPar /\ codec = NoCodec /\ view = NoView /\ cmd = NoCmd

NextCalc == \E m \in Measures : ShowResults(m)

SpecCalc == InitCalc /\ [][NextCalc]_vars

\* calc_results ran past its guards.
Derived ==
    /\ xr["client"].pc = "shown"
    /\ Successful["client"] = 1
    /\ Res.l_real.n # 0
    /\ Res.r_real.n # 0

\* Two fractions are the same number.
FracEq(f, g) == f.n * g.d = g.n * f.d

\* The pattern: the count of the one side that counted over the other
\* side's real time, the sum of both over the mean time.
OnePattern(value, lc, rc) ==
    /\ lc # 0 /\ rc = 0 => FracEq(value, DivBy(lc, Res.r_real))
    /\ lc = 0 /\ rc # 0 => FracEq(value, DivBy(rc, Res.l_real))
    /\ lc # 0 /\ rc # 0 =>
          FracEq(value, DivBy(lc + rc, Mid(Res.l_real, Res.r_real)))

\* C32: the messaging rate (received messages), the send bandwidth (sent
\* bytes) and the receive bandwidth (received bytes) all divide the count
\* of the only side that counted by the other side's real time, and the
\* sum of both counts by the mean of the two times.
C32_OnePattern ==
    Derived =>
       /\ OnePattern(Res.msg_rate, LStat["client"].r.no_msgs, RStat.r.no_msgs)
       /\ OnePattern(Res.send_bw, LStat["client"].s.no_bytes, RStat.s.no_bytes)
       /\ OnePattern(Res.recv_bw, LStat["client"].r.no_bytes, RStat.r.no_bytes)

\* calc_results ran on a successful test.
Calculated == xr["client"].pc = "shown" /\ Successful["client"] = 1

\* The real time of a side is zero: equal start and end ticks, or a zero
\* tick rate.
TimeZero(stat) == stat.time_e = stat.time_s \/ stat.no_ticks = 0

ResFields == {"l_real", "r_real", "l_cpu", "r_cpu", "latency", "msg_rate",
              "send_bw", "recv_bw", "send_cost", "recv_cost"}
Derivations == {"msg_rate", "send_bw", "recv_bw", "send_cost", "recv_cost"}

\* C33: with a zero local or remote real time the messaging rate, the two
\* bandwidths and the two costs stay zero, and no number of the results is
\* the outcome of a division by zero; the latency is computed only with a
\* nonzero count of received messages and a cost only with a nonzero count
\* of bytes.
C33_Guarded ==
    Calculated =>
       /\ \A f \in ResFields : Res[f].d # 0
       /\ TimeZero(LStat["client"]) \/ TimeZero(RStat) =>
             \A f \in Derivations : Res[f] = Frac(0, 1)
       /\ LStat["client"].r.no_msgs + RStat.r.no_msgs = 0 =>
             Res.latency = Frac(0, 1)
       /\ LStat["client"].s.no_bytes + RStat.s.no_bytes = 0 =>
             Res.send_cost = Frac(0, 1)
       /\ LStat["client"].r.no_bytes + RStat.r.no_bytes = 0 =>
             Res.recv_cost = Frac(0, 1)

\* The tick rate of the local side is zero while time passed on both
\* sides and bytes and messages were counted.
C33_Witness ==
    /\ Calculated
    /\ LStat["client"].no_ticks = 0
    /\ LStat["client"].time_e # LStat["client"].time_s
    /\ ~TimeZero(RStat)
    /\ LStat["client"].s.no_bytes # 0
    /\ RStat.r.no_bytes # 0
    /\ RStat.r.no_msgs # 0
    /\ Res.r_real.n # 0
    /\ Res.send_bw = Frac(0, 1)

----------------------------------------------------------------------------
(* do_args on command lines with two parameter options, each with its      *)
(* value, alone or before a server name and a test.                        *)

FanValues == {Num("1", FALSE, <<1>>, ""), Num("2", FALSE, <<2>>, "")}
FanOptions ==
    {tok \in OptTokens :
        \E n \in ParamNames, k \in 1..3 : tok.text = Forms[n][k]}
FanTails == {<<>>, <<Word("host", FALSE), Word("quit", FALSE)>>,
             <<Word("host", FALSE), Word("rds_bw", FALSE)>>}
FanLines ==
    {<<o[1], v[1], o[2], v[2]>> \o tail :
        o \in FanOptions \X FanOptions, v \in FanValues \X FanValues,
        tail \in FanTails}

InitFan ==
    /\ InitBase
    /\ par = NoPar /\ codec = NoCodec /\ view = NoView
    /\ \E args \in FanLines : cmd = CmdStart(args)

SpecFan == InitFan /\ [][NextArgs]_vars

\* do_args handles the form k of parameter option n with its value, and
\* goes on to the next token.
FanStep(n, k) ==
    /\ cmd.pc = "args" /\ cmd.args # <<>>
    /\ Head(cmd.args).text = Forms[n][k]
    /\ cmd'.pc = "args"
    /\ Len(cmd'.args) = Len(cmd.args) - 2

\* C34: an unprefixed parameter option gives the local and the remote slot
\* of its parameter the same value, a loc_ option changes only the local
\* slot and a rem_ option only the remote slot; every other slot keeps its
\* value, name, set, used and inuse.
C34_Step ==
    \A n \in ParamNames, k \in 1..3 :
        FanStep(n, k) =>
           /\ \A index \in ParIndices \ FormSlots(n, k) :
                 cmd'.info[index] = cmd.info[index]
           /\ \A index \in FormSlots(n, k) :
                 /\ cmd'.info[index].set
                 /\ cmd'.info[index].name = Forms[n][k]
                 /\ cmd'.info[index].val =
                       IF index \in StrSlots THEN cmd.args[2].text
                       ELSE U32(cmd'.l)
           /\ k = 1 => cmd'.info[ParamSlots[n][1]].val =
                           cmd'.info[ParamSlots[n][2]].val
C34_FanOut == [][C34_Step]_vars

\* '--affinity 1 --loc_affinity 2' was parsed: the remote slot keeps the 1
\* and its name, the local slot holds the 2.
C34_Witness ==
    /\ cmd.pc = "args" /\ Len(cmd.given) = 4 /\ cmd.args = <<>>
    /\ cmd.given[1].text = "--affinity" /\ cmd.given[3].text = "--loc_affinity"
    /\ cmd.info["R_AFFINITY"].val = WordOf(1)
    /\ cmd.info["R_AFFINITY"].name = "--affinity"
    /\ cmd.info["L_AFFINITY"].val = WordOf(2)
    /\ cmd.info["L_AFFINITY"].name = "--loc_affinity"

----------------------------------------------------------------------------
(* client_send_request with and without --wait, qperf.c 1214-1260, and the *)
(* test that follows it: synchronize, the run and stop_timing.  tm holds   *)
(* the frame of the client here.                                           *)

\* The seconds of --wait and the addresses getaddrinfo returns are bounded.
MaxWait == 1
MaxAddrs == 2

WaitSide == "client"

\* Wait as opt_misc stores it: the long of arg_time in a static int.
\* 2^31 seconds is a negative int.
WaitWords ==
    {WordOf(k) : k \in 0..MaxWait} \cup
    {[i \in 1..WordLen |-> IF i = 4 THEN 128 ELSE 0]}

\* The int of a word whose bytes above the lowest are zero or whose sign
\* bit is set; a negative value stands as -1, of which only the sign is
\* used.
IntOf(w) == IF w[4] >= 128 THEN -1 ELSE w[1]

\* The clock is followed up to one second past the longest wait.
Horizon == MaxStart + (MaxWait + 1) * TicksPerSec

\* The tests: quit (run_client_quit) and a test that measures.
WaitTests == {"quit", "timed"}

\* client() has set Finished = 0 and called the client function of the
\* test, which calls client_send_request.
WaitFrame(w, time, naddr, test) ==
    [pc |-> "csr", Finished |-> 0, Wait |-> IntOf(w), time |-> time,
     naddr |-> naddr, r |-> 1, RemoteFD |-> -1, loaded |-> 0, back |-> "",
     alarm |-> 0, nsig |-> 0, eOf |-> 0, code |-> 0, msg |-> "",
     test |-> test]

InitWait ==
    /\ now \in 0..MaxStart
    /\ Req = [p \in Sides |-> ReqZero]
    /\ chan = [p \in Sides |-> <<>>]
    /\ eof = [p \in Sides |-> FALSE]
    /\ io = [p \in Sides |-> NoIo]
    /\ sy = [p \in Sides |-> NoSync]
    /\ Successful = [p \in Sides |-> 0]
    /\ itimer = [p \in Sides |-> "off"]
    /\ LStat = [p \in Sides |-> StatZero]
    /\ xr = [p \in Sides |-> NoXchg]
    /\ RStat = StatZero
    /\ Res = ResZero
    /\ ShowTable = <<>>
    /\ SrvInit
    /\ \E w \in WaitWords, time \in 0..MaxTimeout, naddr \in 1..MaxAddrs,
          test \in WaitTests :
          tm = WaitFrame(w, time, naddr, test)
    /\ cl = NoClient
    /\ par = NoPar /\ codec = NoCodec /\ view = NoView /\ cmd = NoCmd

\* Lines 1233-1235: RemoteFD = -1; if (Wait) start_timing(Wait).
CsrStart ==
    /\ tm.pc = "csr"
    /\ tm' = [tm EXCEPT !.pc = "pass", !.r = 1,
                        !.alarm = now + tm.Wait * TicksPerSec]
    /\ IF tm.Wait # 0 THEN StartTiming(WaitSide, tm.Wait)
       ELSE UNCHANGED <<itimer, LStat>>
    /\ UNCHANGED <<now, tmRest>>

\* Lines 1237-1245: socket and connect on the next address; the pass ends
\* with the first connection and after the last address.
CsrConnect(ok) ==
    /\ tm.pc = "pass"
    /\ tm' = IF ok THEN [tm EXCEPT !.RemoteFD = tm.r, !.pc = "check"]
             ELSE IF tm.r = tm.naddr THEN [tm EXCEPT !.pc = "check"]
             ELSE [tm EXCEPT !.r = @ + 1]
    /\ UNCHANGED <<now, itimer, LStat, tmRest>>

\* Lines 1246-1247: if (RemoteFD >= 0 || !Wait || Finished) break.
CsrCheck ==
    /\ tm.pc = "check"
    /\ tm' = IF tm.RemoteFD >= 0 \/ tm.Wait = 0 \/ tm.Finished # 0
             THEN [tm EXCEPT !.pc = "out"]
             ELSE [tm EXCEPT !.pc = "sleep"]
    /\ UNCHANGED <<now, itimer, LStat, tmRest>>

\* Line 1248: sleep(1) returns after a second.
CsrSleep ==
    /\ tm.pc = "sleep"
    /\ tm' = [tm EXCEPT !.pc = "pass", !.r = 1]
    /\ now' = Min(now + TicksPerSec, Horizon)
    /\ UNCHANGED <<itimer, LStat, tmRest>>

\* Lines 1250-1251: if (Wait) stop_timing(), which starts with
\* set_finished().
CsrOut ==
    /\ tm.pc = "out"
    /\ tm' = IF tm.Wait # 0 THEN [tm EXCEPT !.pc = "load", !.back = "fd"]
             ELSE [tm EXCEPT !.pc = "fd"]
    /\ UNCHANGED <<now, itimer, LStat, tmRest>>

\* set_finished in the main flow: Finished is loaded, ...
WaitLoad ==
    /\ tm.pc = "load"
    /\ tm' = [tm EXCEPT !.pc = "store", !.loaded = tm.Finished]
    /\ UNCHANGED <<now, itimer, LStat, tmRest>>

\* ... the value plus one is stored and the value loaded compared to 0, ...
WaitStore ==
    /\ tm.pc = "store"
    /\ tm' = [tm EXCEPT !.Finished = tm.loaded + 1,
                        !.pc = IF tm.loaded = 0 THEN "get" ELSE "disarm"]
    /\ UNCHANGED <<now, itimer, LStat, tmRest>>

\* ... and get_times(LStat.time_e) follows a 0.  eOf notes the start
\* snapshot the end snapshot comes after.
WaitGet ==
    /\ tm.pc = "get"
    /\ tm' = [tm EXCEPT !.pc = "disarm", !.eOf = LStat[WaitSide].ns]
    /\ LStat' = [LStat EXCEPT ![WaitSide].time_e = now, ![WaitSide].ne = @ + 1]
    /\ UNCHANGED <<now, itimer, tmRest>>

\* stop_timing after set_finished: setitimer(ITIMER_REAL, {0}).
WaitDisarm ==
    /\ tm.pc = "disarm"
    /\ tm' = [tm EXCEPT !.pc = tm.back]
    /\ itimer' = [itimer EXCEPT ![WaitSide] = "off"]
    /\ UNCHANGED <<now, LStat, tmRest>>

\* Lines 1253-1254: if (RemoteFD < 0) error_die("Failed to connect").
CsrFd ==
    /\ tm.pc = "fd"
    /\ tm' = IF tm.RemoteFD < 0
             THEN [tm EXCEPT !.pc = "exited", !.code = 1,
                             !.msg = "Failed to connect"]
             ELSE [tm EXCEPT !.pc = "send"]
    /\ UNCHANGED <<now, itimer, LStat, tmRest>>

\* Lines 1255-1260: set_nonblock, enc_req and send_mesg; die() when one
\* of the two calls fails.
CsrSend(ok) ==
    /\ tm.pc = "send"
    /\ tm' = IF ok THEN [tm EXCEPT !.pc = "sync"]
             ELSE [tm EXCEPT !.pc = "exited", !.code = 1]
    /\ UNCHANGED <<now, itimer, LStat, tmRest>>

\* synchronize() of the test: start_timing(Req.time) when both steps
\* succeeded.  run_client_quit then calls exit(0) in any case; the test
\* that measures runs when synchronize succeeded and returns otherwise.
WaitSync(ok) ==
    /\ tm.pc = "sync"
    /\ IF ok
       THEN /\ StartTiming(WaitSide, tm.time)
            /\ tm' = [tm EXCEPT !.pc = IF tm.test = "quit" THEN "exited"
                                       ELSE "run",
                                !.alarm = now + tm.time * TicksPerSec]
       ELSE /\ tm' = [tm EXCEPT !.pc = IF tm.test = "quit" THEN "exited"
                                       ELSE "returned"]
            /\ UNCHANGED <<itimer, LStat>>
    /\ UNCHANGED <<now, tmRest>>

\* The loop of the test ends, on Finished or on its count of messages,
\* and the test calls stop_timing() before the results are exchanged.
WaitTestEnd ==
    /\ tm.pc = "run"
    /\ tm' = [tm EXCEPT !.pc = "load", !.back = "results"]
    /\ UNCHANGED <<now, itimer, LStat, tmRest>>

\* The pcs at which the process has ended or holds its results.
WaitOver == {"exited", "returned", "results"}

\* The timer runs out, or repeats after its microsecond: SIGALRM, and
\* sig_alrm calls set_finished().  A sleep that is interrupted returns.
WaitAlarm ==
    /\ tm.pc \notin WaitOver
    /\ \/ itimer[WaitSide] = "armed" /\ now >= tm.alarm
       \/ itimer[WaitSide] = "repeat"
    /\ tm.nsig < MaxSignals
    /\ tm' = [tm EXCEPT !.Finished = @ + 1, !.nsig = @ + 1,
                        !.eOf = IF tm.Finished = 0 THEN LStat[WaitSide].ns
                                ELSE @,
                        !.pc = IF @ = "sleep" THEN "pass" ELSE @,
                        !.r = IF tm.pc = "sleep" THEN 1 ELSE @]
    /\ itimer' = [itimer EXCEPT ![WaitSide] = "repeat"]
    /\ LStat' = IF tm.Finished = 0
                THEN [LStat EXCEPT ![WaitSide].time_e = now,
                                   ![WaitSide].ne = @ + 1]
                ELSE LStat
    /\ UNCHANGED <<now, tmRest>>

\* Time passes once client_send_request has started.
TickWait ==
    /\ tm.pc \notin WaitOver \cup {"csr"}
    /\ now < Horizon
    /\ now' = now + 1
    /\ UNCHANGED <<itimer, LStat, tm, tmRest>>

\* The steps of the client's main flow.
WaitMain ==
    \/ CsrStart
    \/ \E ok \in BOOLEAN : CsrConnect(ok)
    \/ CsrCheck
    \/ CsrSleep
    \/ CsrOut
    \/ WaitLoad
    \/ WaitStore
    \/ WaitGet
    \/ WaitDisarm
    \/ CsrFd
    \/ \E ok \in BOOLEAN : CsrSend(ok)
    \/ \E ok \in BOOLEAN : WaitSync(ok)
    \/ WaitTestEnd

NextWait ==
    \/ WaitMain
    \/ WaitAlarm
    \/ TickWait

SpecWait == InitWait /\ [][NextWait]_vars

\* The calls of the main flow return, and a signal that is due is
\* delivered.
SpecWaitFair == SpecWait /\ WF_vars(WaitMain) /\ WF_vars(WaitAlarm)

\* The connect loop, lines 1236-1249.
InConnectLoop == tm.pc \in {"csr", "pass", "check", "sleep"}

\* C35: the connect loop ends: it goes to sleep and to another pass only
\* with --wait, no connection and Finished not raised, so that without
\* --wait there is one pass and with it no pass starts after one that
\* ended with Finished raised; and after the loop 'Failed to connect' and
\* status 1 follow where no connection was made, the sending of the request
\* otherwise.
C35_Step ==
    /\ tm.pc = "check" /\ tm'.pc = "sleep" =>
          tm.Wait # 0 /\ tm.Finished = 0 /\ tm.RemoteFD < 0
    /\ tm.pc = "fd" /\ tm'.pc # "fd" =>
          IF tm.RemoteFD < 0
          THEN tm'.pc = "exited" /\ tm'.code = 1
               /\ tm'.msg = "Failed to connect"
          ELSE tm'.pc = "send"
C35_ConnectLoopEnds == <>(~InConnectLoop) /\ [][C35_Step]_vars

\* synchronize starts the measurement timer in this step.
MeasureStarts == tm.pc = "sync" /\ LStat'[WaitSide].ns = LStat[WaitSide].ns + 1

\* C36: when synchronize starts the measurement timer Finished is 0, and
\* the end snapshot the test holds at its results was taken after the
\* start snapshot of that measurement.
C36_Step == MeasureStarts => tm.Finished = 0
C36_Window == tm.pc = "results" => tm.eOf = LStat[WaitSide].ns
C36_FreshWindow == [][C36_Step]_vars /\ []C36_Window

-----------------------------------------------------------------------------
(* The request and the parameter table, qperf.c 295-325, 1193-1196,        *)
(* 1257-1260 and 2476-2496.                                                *)

\* The request each test would send if client() started it on this table.
FrameNow(info) ==
    [t \in TestNames |-> RequestFrame(client_pars(info), t)]

\* The request made of the remote slots alone, with the version constants
\* and the index of the test.
RemoteFrame(info, name) ==
    LET int(l, n) == [i \in 1..n |-> SarN(l, i - 1)[1]]
        r(index) == int(info[index].val, 4)
    IN  int(WordOf(VER_MAJ), 2) \o int(WordOf(VER_MIN), 2)
        \o int(WordOf(VER_INC), 2) \o int(WordOf(TestIndex(name)), 2)
        \o r("R_FLIP") \o r("R_ACCESS_RECV") \o r("R_AFFINITY")
        \o r("R_POLL_MODE") \o r("R_PORT") \o r("R_RD_ATOMIC")
        \o r("R_TIMEOUT") \o r("R_MSG_SIZE") \o r("R_MTU_SIZE")
        \o r("R_NO_MSGS") \o r("R_SOCK_BUF_SIZE") \o r("R_TIME")
        \o StrVec(info["R_ID"].val)

\* C37: an option that assigns local slots only, or the rate slots, leaves
\* the request every test would send unchanged, and the request a test
\* sends is made of the remote slots, the version constants and the index
\* of the test alone.
C37_Step ==
    /\ \A n \in ParamNames, k \in 1..3 :
          FanStep(n, k) /\ (k = 2 \/ n = "rate") =>
              FrameNow(cmd'.info) = FrameNow(cmd.info)
    /\ cmd.pc = "client" =>
          RequestFrame(cmd'.info, cmd.TestName) =
              RemoteFrame(cmd'.info, cmd.TestName)
C37_RemoteOnly == [][C37_Step]_vars

\* '--sock_buf_size 1 --loc_sock_buf_size 2 host rds_bw' has run its test: the local
\* slot holds the 2 and the request carries the 1.
C37_Witness ==
    /\ cmd.testSpecified /\ cmd.TestName = "rds_bw" /\ Len(cmd.given) = 6
    /\ cmd.given[1].text = "--sock_buf_size"
    /\ cmd.given[3].text = "--loc_sock_buf_size"
    /\ cmd.info["L_SOCK_BUF_SIZE"].val = WordOf(2)
    /\ cmd.info["R_SOCK_BUF_SIZE"].val = WordOf(1)
    /\ SubSeq(RequestFrame(cmd.info, cmd.TestName), 49, 52) = <<1, 0, 0, 0>>

-----------------------------------------------------------------------------
(* Agreement of the two sides on the result exchange, qperf.c 1305-1329.   *)

\* C38: when the server's exchange_results has ended with Successful set,
\* the client has received the whole Stat and its own exchange_results,
\* once it has returned, has ended with Successful set.
C38_Agreement ==
    (XchgReturned("server") /\ Successful["server"] = 1) =>
        /\ xr["client"].entry = 1 /\ xr["client"].ok1
        /\ Len(xr["client"].got) = StatLen
        /\ XchgReturned("client") => Successful["client"] = 1

\* Both sides have returned from the exchange with Successful set.
C38_Witness ==
    /\ XchgReturned("server") /\ Successful["server"] = 1
    /\ XchgReturned("client") /\ Successful["client"] = 1
    /\ xr["server"].ok2 /\ xr["client"].ok2

-----------------------------------------------------------------------------
(* The time of a test that is bounded by its number of messages, qperf.c   *)
(* 1179-1190.                                                              *)

\* A test has been started and runs on the table as client() left it.
TestRuns == par.pc \in {"body", "checked"}

\* The tests client() has started so far.
TestsStarted ==
    Cardinality({k \in DOMAIN ParDone : ParDone[k].kind = "test"})

\* C39: in every test started while no_msgs is set by the user and time was
\* never set by the user, the time of the test is 0, on the local side and
\* in what goes to the server.
C39_CountBoundsRun ==
    TestRuns =>
       /\ par_isset(par.info, "L_NO_MSGS") /\ ~par_isset(par.info, "L_TIME")
             => par.info["L_TIME"].val = 0
       /\ par_isset(par.info, "R_NO_MSGS") /\ ~par_isset(par.info, "R_TIME")
             => par.info["R_TIME"].val = 0

-----------------------------------------------------------------------------
(* SIGPIPE during a test, qperf.c 553-569, 1082-1086 and 1677-1682.        *)

\* The handler of a SIGPIPE is on top of the stack.
InPipeHandler == tm.pc = "run" /\ Top.sig = "SIGPIPE"

\* The write of the test that meets the closed connection: the step of the
\* running test that is no call of stop_timing and neither makes a signal
\* pending nor delivers one.
PipeRaised ==
    /\ tm.pc = "run" /\ InMain /\ Top.pc = "run"
    /\ tm' # tm /\ tm'.pend = tm.pend /\ tm'.frames[1] = tm.frames[1]

\* C40: a SIGPIPE during a test enters sig_alrm and the process goes on;
\* the handler leaves Finished above what it found; the store that raises
\* Finished from 0 is followed by the end snapshot, taken at that time; and
\* Finished, once it is not 0, is not 0 again before the test is over.
C40_Step ==
    /\ PipeRaised =>
          /\ tm'.pc = "run"
          /\ Len(tm'.frames) = Len(tm.frames) + 1
          /\ tm'.frames[Len(tm'.frames)] =
                [sig |-> "SIGPIPE", pc |-> "load", loaded |-> 0,
                 was |-> tm.Finished]
    /\ InPipeHandler /\ Top.pc = "ret" /\ Len(tm'.frames) < Len(tm.frames) =>
          /\ tm.Finished > Top.was
          /\ LStat[TmSide].ne >= 1
    /\ InPipeHandler /\ Top.pc = "store" /\ tm'.Finished # tm.Finished =>
          /\ tm'.Finished = Top.loaded + 1
          /\ tm.Finished = 0 => tm'.frames[Len(tm'.frames)].pc = "get"
    /\ InPipeHandler /\ Top.pc = "get" /\ LStat' # LStat =>
          /\ LStat'[TmSide].time_e = now
          /\ Top.loaded = 0
    /\ tm.pc = "run" /\ tm.Finished # 0 => tm'.pc = "run" /\ tm'.Finished # 0
C40_PipeLikeAlarm == [][C40_Step]_vars

\* A SIGPIPE was the first to raise Finished: its handler has recorded the
\* end snapshot and returned, and the test goes on with Finished = 1.
C40_Witness ==
    /\ tm.pc = "run" /\ InMain /\ Top.pc = "run"
    /\ tm.nsig = 1 /\ itimer[TmSide] = "armed"
    /\ tm.Finished = 1
    /\ LStat[TmSide].ne = 1 /\ LStat[TmSide].time_e = now
====
